---- MODULE Spec2Model ----
(***************************************************************************)
(* Reference-key lifecycle of interactive-noisy-simulation: the three      *)
(* managers (NoiseDataManager, NoiseCreator, SimulatorManager), their      *)
(* registries and the shared key blocker.                                  *)
(*                                                                         *)
(* A reference key is a sequence of one-character strings, so that         *)
(* validate_instance_name can rewrite it character by character.           *)
(* A registry is a Python dict: a sequence of records in insertion order,  *)
(* each with the field "key".                                              *)
(***************************************************************************)
EXTENDS Integers, Sequences, FiniteSets, TLC

VARIABLES
    noise_data,        \* NoiseDataManager.__noise_data
    noise_models,      \* NoiseCreator.__noise_models
    simulators,        \* SimulatorManager.__simulators
    key_availability,  \* KeyBlocker.key_availability[type]["blocked_keys"]
    nc_linked,         \* NoiseCreator.__noise_data is not None
    sm_linked,         \* SimulatorManager.__noise_models is not None
    CONFIG,            \* data._data.CONFIG: the entries the program writes
    last               \* outcome of the latest manager call

vars == <<noise_data, noise_models, simulators, key_availability,
          nc_linked, sm_linked, CONFIG, last>>

(***************************************************************************)
(* Bounds and inputs                                                       *)
(***************************************************************************)
\* the reference keys the user types: one plain key, one with a space and the
\* key the one with a space is rewritten to
Keys == { <<"q">>, <<"a", " ", "b">>, <<"a", "_", "b">> }

\* one row of a calibration CSV file as pandas.read_csv returns it
RawRow(ecr_error, gate_time) ==
    [c \in {"t1_time", "ecr_error", "2q_gate_time", "operational"} |->
        CASE c = "t1_time" -> [kind |-> "num", val |-> 100]
          [] c = "ecr_error" -> ecr_error
          [] c = "2q_gate_time" -> gate_time
          [] c = "operational" -> [kind |-> "str", val |-> <<"True">>]]

RawTable(rows) ==
    [columns |-> {"t1_time", "ecr_error", "2q_gate_time", "operational"}, rows |-> rows]

\* the columns of a calibration file, by their CSV_COLUMNS key
CalColumns ==
    {"t1_time", "t2_time", "1q_gate_time", "readout_time", "m0p1", "m1p0",
     "sx_gate_error", "rz_gate_error", "ecr_error", "2q_gate_time", "operational"}

GateColumns == {"sx_gate_error", "rz_gate_error", "ecr_error"}

\* one row of a calibration file: T1 and T2 in microseconds, the error rates
\* of the gates and the two multi-valued cells; the other cells are the same
\* for every qubit
CalRow(t1, t2, sx, rz, ecr_error, gate_time) ==
    [c \in CalColumns |->
        CASE c = "t1_time" -> [kind |-> "num", val |-> t1]
          [] c = "t2_time" -> [kind |-> "num", val |-> t2]
          [] c = "1q_gate_time" -> [kind |-> "num", val |-> 60]
          [] c = "readout_time" -> [kind |-> "num", val |-> 1200]
          [] c = "m0p1" -> [kind |-> "float", val |-> 2]
          [] c = "m1p0" -> [kind |-> "float", val |-> 3]
          [] c = "sx_gate_error" -> sx
          [] c = "rz_gate_error" -> rz
          [] c = "ecr_error" -> ecr_error
          [] c = "2q_gate_time" -> gate_time
          [] c = "operational" -> [kind |-> "str", val |-> <<"True">>]]

\* the file with the given columns of the given rows
Table(columns, rows) ==
    [columns |-> columns,
     rows |-> [q \in DOMAIN rows |-> [c \in columns |-> rows[q][c]]]]

\* cal.csv: two coupled qubits, 0 - 1, of a device that reports no gate errors
CalTable ==
    LET none == [kind |-> "nan", val |-> <<>>] IN
    Table(CalColumns \ GateColumns,
          << CalRow(100, 250, none, none, none,
                    [kind |-> "str", val |-> <<"1", ":", "0.03">>]),
             CalRow(50, 120, none, none, none,
                    [kind |-> "str", val |-> <<"0", ":", "0.03">>]) >>)

\* file paths handed to import_csv_data, each with the table the file holds
FilePaths ==
    { [stem |-> "cal", ext |-> ".csv", content |-> CalTable],
      [stem |-> "notes", ext |-> ".txt", content |-> RawTable(<<>>)] }

\* Path(file_path).name
Path_name(file_path) == file_path.stem \o file_path.ext

\* str(Path(file_path).resolve()): the path made absolute against the working
\* directory
Path_resolve(file_path) == "/cwd/" \o Path_name(file_path)

NoKey == <<>>

NoInput == <<>>

\* optimization levels handed to run_simulator: around both ends of 0..3
OptimizationLevels == {-1, 0, 3, 4}

\* the user keeps at most MaxInstances instances alive over the three managers
MaxInstances == 3

(***************************************************************************)
(* Python dict operations on a registry                                    *)
(***************************************************************************)
KeysOf(instances) == { instances[i].key : i \in DOMAIN instances }

IndexOf(instances, key) == CHOOSE i \in DOMAIN instances : instances[i].key = key

GetItem(instances, key) == instances[IndexOf(instances, key)]

\* instances[key] = inst : replaces in place when the key is present
SetItem(instances, key, inst) ==
    IF key \in KeysOf(instances)
    THEN [instances EXCEPT ![IndexOf(instances, key)] = inst]
    ELSE Append(instances, inst)

\* del instances[key]
DelItem(instances, key) == SelectSeq(instances, LAMBDA r : r.key # key)

(***************************************************************************)
(* utils/validators.py, core/utils/checkers.py                             *)
(***************************************************************************)
\* variant: the key is stored as typed
validate_instance_name_as_typed(new_instance_key) == new_instance_key

validate_instance_name(new_instance_key) ==
    IF \E i \in DOMAIN new_instance_key : new_instance_key[i] = " "
    THEN [i \in DOMAIN new_instance_key |->
            IF new_instance_key[i] = " " THEN "_" ELSE new_instance_key[i]]
    ELSE new_instance_key

\* TRUE when the check passes, FALSE when it raises
check_instance_key(reference_key, should_exist, instances) ==
    IF should_exist
    THEN reference_key \in KeysOf(instances)
    ELSE ~(reference_key \in KeysOf(instances))

\* expected_ext = (".csv", ".CSV")
validate_file_type(file_path) == file_path.ext \in {".csv", ".CSV"}

(***************************************************************************)
(* core/utils/key_blocker.py                                               *)
(***************************************************************************)
EmptyBlocked == [k \in {} |-> NoKey]

KeyBlockerInit == [noise_data |-> EmptyBlocked, noise_models |-> EmptyBlocked]

blocked_keys(ka, instance_type) == ka[instance_type]

\* variant: an entry that is already there is kept
block_key_keeps_first(ka, key, instance_type, blocker_key) ==
    [ka EXCEPT ![instance_type] =
        [k \in (DOMAIN ka[instance_type]) \cup {key} |->
            IF k \in DOMAIN ka[instance_type] THEN ka[instance_type][k]
            ELSE blocker_key]]

block_key(ka, key, instance_type, blocker_key) ==
    [ka EXCEPT ![instance_type] =
        [k \in (DOMAIN ka[instance_type]) \cup {key} |->
            IF k = key THEN blocker_key ELSE ka[instance_type][k]]]

\* del blocked_keys[key]; the caller sees a KeyError when can_unblock_key is FALSE
can_unblock_key(ka, key, instance_type) == key \in DOMAIN ka[instance_type]

\* variant: the entry is left in place
unblock_key_kept(ka, key, instance_type) == ka

unblock_key(ka, key, instance_type) ==
    [ka EXCEPT ![instance_type] =
        [k \in (DOMAIN ka[instance_type]) \ {key} |-> ka[instance_type][k]]]

\* variant: no key is ever reported as blocked
check_blocked_key_never(ka, key, instance_type) == FALSE

\* variant: the key is looked up in the lock tables of both instance types
check_blocked_key_any_table(ka, key, instance_type) ==
    \E any_type \in DOMAIN ka : key \in DOMAIN ka[any_type]

\* TRUE when BlockedKeyError is raised
check_blocked_key(ka, key, instance_type) == key \in DOMAIN ka[instance_type]

\* key_availability[instance_type]["self_type"] and ["blocker_type"]
instance_info(instance_type) ==
    IF instance_type = "noise_data"
    THEN [blocker_type |-> "noise model", self_type |-> "noise data"]
    ELSE [blocker_type |-> "simulator", self_type |-> "noise model"]

\* what the raised BlockedKeyError carries: the arguments formatted into
\* ERRORS["blocked_reference_key"]
blocked_reference_key(ka, key, instance_type) ==
    [reference_key |-> key,
     instance_type |-> instance_info(instance_type).self_type,
     blocker_instance_type |-> instance_info(instance_type).blocker_type,
     blocker |-> ka[instance_type][key]]

\* no BlockedKeyError was raised
NoMessage ==
    [reference_key |-> NoKey, instance_type |-> "", blocker_instance_type |-> "",
     blocker |-> NoKey]

(***************************************************************************)
(* Outcome of a call.  err = "none" on success; handled tells whether the  *)
(* manager caught the exception and reported it (msg.add_traceback) or the *)
(* exception left the method.  blocker is the key a BlockedKeyError names. *)
(***************************************************************************)
Outcome(op, arg, source, key, err, handled, blocker) ==
    [op |-> op,            \* the method called
     arg |-> arg,          \* the reference key as the user typed it
     source |-> source,    \* the source key argument of a create call
     key |-> key,          \* the key as the method holds it when it ends
     err |-> err, handled |-> handled, blocker |-> blocker,
     message |-> NoMessage, \* contents of a BlockedKeyError, set where it is raised
     input |-> NoInput,     \* an argument that is not a key, set by the calls that take one
     returns |-> "None"]    \* the value returned, set by the calls that return one

NoCall == Outcome("init", NoKey, NoKey, NoKey, "none", TRUE, NoKey)

Record(o) == last' = o

\* CONFIG as loaded from config.json when the package is imported; the
\* entries that are only read are the definitions multi_data_columns,
\* not_required_columns, single_qubit_gates and two_qubit_gates
ConfigLoaded == [non_gate_instructions |-> <<"measure", "reset">>]

Init ==
    /\ CONFIG = ConfigLoaded
    /\ noise_data = <<>>
    /\ noise_models = <<>>
    /\ simulators = <<>>
    /\ key_availability = KeyBlockerInit
    /\ nc_linked = FALSE
    /\ sm_linked = FALSE
    /\ last = NoCall

\* room for one more instance (a call that would exceed the bound is not made)
HasRoom == Len(noise_data) + Len(noise_models) + Len(simulators) < MaxInstances

(***************************************************************************)
(* Dataframes.  A dataframe is [columns, rows]: the set of its column      *)
(* names and, per qubit (row position, starting at 0), a function from the *)
(* columns to cells; rows[q + 1] is the row of qubit q.  Columns go by     *)
(* their CSV_COLUMNS key.  A cell is [kind, val]: NaN (an empty CSV field),*)
(* a string (the sequence of its tokens), a number, a dict or a list.      *)
(***************************************************************************)
NaN == [kind |-> "nan", val |-> <<>>]
Str(tokens) == [kind |-> "str", val |-> tokens]
Num(n) == [kind |-> "num", val |-> n]
Dict(d) == [kind |-> "dict", val |-> d]
List(l) == [kind |-> "list", val |-> l]
Bool(b) == [kind |-> "bool", val |-> b]

\* pandas.isna
isna(cell) == cell.kind = "nan"

\* CONFIG["multi_data_columns"], in the configured order
multi_data_columns == <<"ecr_error", "2q_gate_time">>

\* CONFIG["not_required_columns"]
not_required_columns == {"operational"}

\* CSV_COLUMNS["neighboring_qubits"]["csv_name"], CSV_COLUMNS["reset_time"]["csv_name"]
neighboring_qubits_column == "neighboring_qubits"
reset_time_column == "reset_time"

\* str.split(sep) on a sequence of tokens
RECURSIVE split(_, _)
split(tokens, sep) ==
    IF \E i \in DOMAIN tokens : tokens[i] = sep
    THEN LET i == CHOOSE j \in DOMAIN tokens :
                     tokens[j] = sep /\ \A h \in 1..(j - 1) : tokens[h] # sep
         IN  <<SubSeq(tokens, 1, i - 1)>> \o split(SubSeq(tokens, i + 1, Len(tokens)), sep)
    ELSE <<tokens>>

\* int(target_qubit) of a one-token string
int(text) ==
    CASE text = <<"0">> -> 0 [] text = <<"1">> -> 1 [] text = <<"2">> -> 2
      [] text = <<"3">> -> 3 [] text = <<"4">> -> 4 [] text = <<"5">> -> 5

\* float(value) of a one-token string, in units of 0.01
float(text) ==
    CASE text = <<"0.01">> -> 1 [] text = <<"0.02">> -> 2
      [] text = <<"0.03">> -> 3 [] text = <<"0.04">> -> 4

\* pandas.read_csv(file_path): the table the file holds
read_csv(file_path) == file_path.content

\* remove_unnecessary_collumns(dataframe)
remove_unnecessary_collumns(dataframe) ==
    LET kept == dataframe.columns \ not_required_columns IN
    [columns |-> kept,
     rows |-> [q \in DOMAIN dataframe.rows |-> [c \in kept |-> dataframe.rows[q][c]]]]

\* add_additional_columns(dataframe)
add_additional_columns(dataframe) ==
    LET all == dataframe.columns \cup {neighboring_qubits_column, reset_time_column} IN
    [columns |-> all,
     rows |-> [q \in DOMAIN dataframe.rows |->
                 [c \in all |->
                     IF c = reset_time_column THEN Num(1300)
                     ELSE IF c = neighboring_qubits_column THEN NaN
                     ELSE dataframe.rows[q][c]]]]

\* variant: only the first fragment of the cell is kept
modified_data_first_fragment(column_values_list) ==
    LET pair == split(column_values_list[1], ":")
    IN  [t \in {int(pair[1])} |-> float(pair[2])]

\* the dict built from the fragments "target:value": a later fragment with the
\* same target replaces the earlier one
modified_data(column_values_list) ==
    LET pair(j) == split(column_values_list[j], ":")
        targets == { int(pair(j)[1]) : j \in DOMAIN column_values_list }
    IN  [t \in targets |->
            LET j == CHOOSE h \in DOMAIN column_values_list :
                        /\ int(pair(h)[1]) = t
                        /\ \A g \in DOMAIN column_values_list :
                              int(pair(g)[1]) = t => g <= h
            IN  float(pair(j)[2])]

\* variant: every non-empty column derives the neighbors again
first_or_found_rederived(column_values_list, found_neighbors, are_neighbors_found) ==
    [j \in DOMAIN column_values_list |-> int(split(column_values_list[j], ":")[1])]

\* found_neighbors after one non-empty cell: appended to only while
\* are_neighbors_found is False
first_or_found(column_values_list, found_neighbors, are_neighbors_found) ==
    IF are_neighbors_found THEN found_neighbors
    ELSE found_neighbors \o
         [j \in DOMAIN column_values_list |-> int(split(column_values_list[j], ":")[1])]

\* the body of the loop over CONFIG["multi_data_columns"] for one qubit,
\* from the i-th configured column on
RECURSIVE modify_row(_, _, _, _, _)
modify_row(columns, row, i, found_neighbors, are_neighbors_found) ==
    IF i > Len(multi_data_columns) THEN row
    ELSE LET column_name == multi_data_columns[i] IN
         IF column_name \in columns /\ ~isna(row[column_name])
         THEN LET column_values_list == split(row[column_name].val, ";")
                  found == first_or_found(column_values_list, found_neighbors,
                                          are_neighbors_found)
              IN  modify_row(columns,
                             [row EXCEPT ![column_name] =
                                             Dict(modified_data(column_values_list)),
                                         ![neighboring_qubits_column] = List(found)],
                             i + 1, found, TRUE)
         ELSE modify_row(columns, row, i + 1, found_neighbors, are_neighbors_found)

\* modify_dataframe_data(dataframe)
modify_dataframe_data(dataframe) ==
    [columns |-> dataframe.columns,
     rows |-> [q \in DOMAIN dataframe.rows |->
                 modify_row(dataframe.columns, dataframe.rows[q], 1, <<>>, FALSE)]]

\* variant: the columns that are not required are removed only from the
\* first file imported
processed_first_cleaned(file_path) ==
    modify_dataframe_data(
        add_additional_columns(
            IF noise_data = <<>> THEN remove_unnecessary_collumns(read_csv(file_path))
            ELSE read_csv(file_path)))

\* the dataframe import_csv_data stores for a file
processed(file_path) ==
    modify_dataframe_data(
        add_additional_columns(remove_unnecessary_collumns(read_csv(file_path))))

(***************************************************************************)
(* NoiseDataManager                                                        *)
(***************************************************************************)
\* variant: the key is checked as typed and rewritten only afterwards
import_csv_data_late_rename(reference_key, file_path) ==
    LET key == validate_instance_name(reference_key)
        op == "import_csv_data"
    IN
    IF ~check_instance_key(reference_key, FALSE, noise_data) THEN
        /\ Record(Outcome(op, reference_key, NoKey, key, "KeyExistanceError", TRUE, NoKey))
        /\ UNCHANGED <<noise_data, noise_models, simulators, key_availability,
                       nc_linked, sm_linked, CONFIG>>
    ELSE IF check_blocked_key(key_availability, reference_key, "noise_data") THEN
        /\ Record(Outcome(op, reference_key, NoKey, key, "BlockedKeyError", TRUE,
                          blocked_keys(key_availability, "noise_data")[reference_key]))
        /\ UNCHANGED <<noise_data, noise_models, simulators, key_availability,
                       nc_linked, sm_linked, CONFIG>>
    ELSE IF ~validate_file_type(file_path) THEN
        /\ Record(Outcome(op, reference_key, NoKey, key, "FileTypeError", TRUE, NoKey))
        /\ UNCHANGED <<noise_data, noise_models, simulators, key_availability,
                       nc_linked, sm_linked, CONFIG>>
    ELSE
        /\ HasRoom
        /\ noise_data' = SetItem(noise_data, key,
                                 [key |-> key,
                                  file_name |-> Path_name(file_path),
                                  full_path |-> Path_resolve(file_path),
                                  dataframe |-> processed(file_path)])
        /\ Record(Outcome(op, reference_key, NoKey, key, "none", TRUE, NoKey))
        /\ UNCHANGED <<noise_models, simulators, key_availability,
                       nc_linked, sm_linked, CONFIG>>

import_csv_data(reference_key, file_path) ==
    LET key == validate_instance_name(reference_key)
        op == "import_csv_data"
    IN
    IF ~check_instance_key(key, FALSE, noise_data) THEN
        /\ Record(Outcome(op, reference_key, NoKey, key, "KeyExistanceError", TRUE, NoKey))
        /\ UNCHANGED <<noise_data, noise_models, simulators, key_availability,
                       nc_linked, sm_linked, CONFIG>>
    ELSE IF check_blocked_key(key_availability, key, "noise_data") THEN
        /\ Record([Outcome(op, reference_key, NoKey, key, "BlockedKeyError", TRUE,
                           blocked_keys(key_availability, "noise_data")[key])
                      EXCEPT !.message =
                          blocked_reference_key(key_availability, key, "noise_data")])
        /\ UNCHANGED <<noise_data, noise_models, simulators, key_availability,
                       nc_linked, sm_linked, CONFIG>>
    ELSE IF ~validate_file_type(file_path) THEN
        /\ Record(Outcome(op, reference_key, NoKey, key, "FileTypeError", TRUE, NoKey))
        /\ UNCHANGED <<noise_data, noise_models, simulators, key_availability,
                       nc_linked, sm_linked, CONFIG>>
    ELSE
        /\ HasRoom
        /\ noise_data' = SetItem(noise_data, key,
                                 [key |-> key,
                                  file_name |-> Path_name(file_path),
                                  full_path |-> Path_resolve(file_path),
                                  dataframe |-> processed(file_path)])
        /\ Record(Outcome(op, reference_key, NoKey, key, "none", TRUE, NoKey))
        /\ UNCHANGED <<noise_models, simulators, key_availability,
                       nc_linked, sm_linked, CONFIG>>

\* NoiseDataInstance.get_qubit_count
get_qubit_count(instance) == Len(instance.dataframe.rows)

\* NoiseDataInstance.get_qubit_data: the cells of the qubit's row, by column
get_qubit_data(instance, qubit_nr) == instance.dataframe.rows[qubit_nr + 1]

\* dataframe.loc[qubit_nr, ...] finds the row (no pandas KeyError)
has_row(instance, qubit_nr) == (qubit_nr + 1) \in DOMAIN instance.dataframe.rows

\* variant: the bound is taken one too high
validate_qubit_number_off_by_one(instance, qubit_nr) ==
    LET qubit_count == get_qubit_count(instance) IN
    IF qubit_nr < 0 THEN "negative_qubit_number"
    ELSE IF qubit_nr > qubit_count THEN "large_qubit_number"
    ELSE "none"

\* NoiseDataInstance.validate_qubit_number: the ERRORS entry of the
\* InputArgumentError raised, "none" when the number is accepted
validate_qubit_number(instance, qubit_nr) ==
    LET qubit_count == get_qubit_count(instance) - 1 IN
    IF qubit_nr < 0 THEN "negative_qubit_number"
    ELSE IF qubit_nr > qubit_count THEN "large_qubit_number"
    ELSE "none"

\* NoiseDataManager.__check_qubit_input: the first qubit refused, 0 when all pass
check_qubit_input(data_instance, qubits) ==
    LET refused == { i \in DOMAIN qubits :
                        validate_qubit_number(data_instance, qubits[i]) # "none" }
    IN  IF refused = {} THEN 0
        ELSE CHOOSE i \in refused : \A j \in refused : i <= j

\* NoiseDataManager.get_qubit_noise_information(reference_key, qubits); qubits
\* is Num(n) or List(l); returns holds the qubit data put on display
get_qubit_noise_information(reference_key, qubits) ==
    LET op == "get_qubit_noise_information"
        qubit_list == IF qubits.kind = "num" THEN <<qubits.val>> ELSE qubits.val
        Ended(err, handled, message, returns) ==
            Record([Outcome(op, reference_key, NoKey, reference_key, err, handled, NoKey)
                       EXCEPT !.input = qubits, !.message = message,
                              !.returns = returns])
    IN
    /\ IF ~check_instance_key(reference_key, TRUE, noise_data)
       THEN Ended("KeyExistanceError", TRUE, NoMessage, "None")
       ELSE LET instance == GetItem(noise_data, reference_key)
                refused == check_qubit_input(instance, qubit_list)
            IN  IF refused # 0
                THEN Ended("InputArgumentError", TRUE,
                           [error |-> validate_qubit_number(instance, qubit_list[refused]),
                            qubit |-> qubit_list[refused],
                            max_qubits |-> get_qubit_count(instance) - 1],
                           "None")
                ELSE IF \E i \in DOMAIN qubit_list : ~has_row(instance, qubit_list[i])
                THEN Ended("KeyError", FALSE, NoMessage, "None")
                ELSE Ended("none", TRUE, NoMessage,
                           [i \in DOMAIN qubit_list |->
                               get_qubit_data(instance, qubit_list[i])])
    /\ UNCHANGED <<noise_data, noise_models, simulators, key_availability,
                   nc_linked, sm_linked, CONFIG>>

\* the qubits argument left out
None == [kind |-> "none", val |-> 0]

\* NoiseDataManager.get_qubit_noise_data(reference_key, qubits=None) of the
\* core manager: no check of the key or of the number of qubits
get_qubit_noise_data(reference_key, qubits) ==
    LET op == "get_qubit_noise_data"
        Ended(err, handled, returns) ==
            Record([Outcome(op, reference_key, NoKey, reference_key, err, handled, NoKey)
                       EXCEPT !.input = qubits, !.returns = returns])
    IN
    /\ IF reference_key \notin KeysOf(noise_data)
       THEN Ended("KeyError", FALSE, "None")  \* self.__noise_data[reference_key]
       ELSE LET instance == GetItem(noise_data, reference_key)
                count == IF qubits.val = 0 THEN get_qubit_count(instance)
                         ELSE qubits.val
            IN  IF \E qubit \in 0..(count - 1) : ~has_row(instance, qubit)
                THEN Ended("KeyError", FALSE, "None")  \* dataframe.loc[qubit, ...]
                ELSE Ended("none", TRUE,
                           [qubit \in 0..(count - 1) |-> get_qubit_data(instance, qubit)])
    /\ UNCHANGED <<noise_data, noise_models, simulators, key_availability,
                   nc_linked, sm_linked, CONFIG>>

\* variant: the removal first asks the key blocker
remove_noise_data_instance_checked(reference_key) ==
    LET op == "remove_noise_data_instance" IN
    IF ~check_instance_key(reference_key, TRUE, noise_data) THEN
        /\ Record(Outcome(op, reference_key, NoKey, reference_key, "KeyExistanceError", TRUE, NoKey))
        /\ UNCHANGED <<noise_data, noise_models, simulators, key_availability,
                       nc_linked, sm_linked, CONFIG>>
    ELSE IF check_blocked_key(key_availability, reference_key, "noise_data") THEN
        /\ Record(Outcome(op, reference_key, NoKey, reference_key, "BlockedKeyError", TRUE,
                          blocked_keys(key_availability, "noise_data")[reference_key]))
        /\ UNCHANGED <<noise_data, noise_models, simulators, key_availability,
                       nc_linked, sm_linked, CONFIG>>
    ELSE
        /\ noise_data' = DelItem(noise_data, reference_key)
        /\ Record(Outcome(op, reference_key, NoKey, reference_key, "none", TRUE, NoKey))
        /\ UNCHANGED <<noise_models, simulators, key_availability,
                       nc_linked, sm_linked, CONFIG>>

\* variant: the rows come out newest first
get_instance_data_newest_first(instances) ==
    [has_data |-> instances # <<>>,
     columns |-> IF instances # <<>>
                 THEN <<"Reference key", "Source file", "Source file path on device">>
                 ELSE <<>>,
     rows |-> [i \in DOMAIN instances |->
                 LET inst == instances[Len(instances) + 1 - i]
                 IN  <<inst.key, inst.file_name, inst.full_path>>]]

\* NoiseDataManager.get_instance_data on the registry `instances`
get_instance_data(instances) ==
    [has_data |-> instances # <<>>,
     columns |-> IF instances # <<>>
                 THEN <<"Reference key", "Source file", "Source file path on device">>
                 ELSE <<>>,
     rows |-> [i \in DOMAIN instances |->
                 <<instances[i].key, instances[i].file_name, instances[i].full_path>>]]

remove_noise_data_instance(reference_key) ==
    LET op == "remove_noise_data_instance" IN
    IF ~check_instance_key(reference_key, TRUE, noise_data) THEN
        /\ Record(Outcome(op, reference_key, NoKey, reference_key, "KeyExistanceError", TRUE, NoKey))
        /\ UNCHANGED <<noise_data, noise_models, simulators, key_availability,
                       nc_linked, sm_linked, CONFIG>>
    ELSE
        /\ noise_data' = DelItem(noise_data, reference_key)
        /\ Record(Outcome(op, reference_key, NoKey, reference_key, "none", TRUE, NoKey))
        /\ UNCHANGED <<noise_models, simulators, key_availability,
                       nc_linked, sm_linked, CONFIG>>

(***************************************************************************)
(* Noise models.  A number of a table is a Num cell (whole units) or a     *)
(* Float cell (units of 0.01); the values of a dict cell are in units of   *)
(* 0.01 as well.  Times handed to the errors are in units of 1e-11 s.  A   *)
(* NoiseModel is [basis_gates, readout_errors, quantum_errors]: the        *)
(* readout errors by qubit, and per <<instruction, qubits>> the errors     *)
(* added under it, in the order added.                                     *)
(***************************************************************************)
Float(h) == [kind |-> "float", val |-> h]

\* the value of a numeric cell in units of 0.01
hundredths(cell) == IF cell.kind = "num" THEN cell.val * 100 ELSE cell.val

\* x * 1e-6 and x * 1e-9 for x in units of 0.01, in units of 1e-11 s
micro(x) == x * 1000
nano(x) == x

\* CONFIG["single_qubit_gates"], CONFIG["two_qubit_gates"]
single_qubit_gates == <<"sx_gate_error", "rz_gate_error">>
two_qubit_gates == <<"ecr_error">>

\* CSV_COLUMNS[gate]["code_name"]
code_name(gate) ==
    CASE gate = "sx_gate_error" -> "sx"
      [] gate = "rz_gate_error" -> "rz"
      [] gate = "ecr_error" -> "ecr"

\* qiskit_aer.noise: depolarizing_error(param, num_qubits)
depolarizing_error(param, num_qubits) ==
    [type |-> "depolarizing", param |-> param, num_qubits |-> num_qubits, parts |-> <<>>]

\* qiskit_aer.noise: thermal_relaxation_error(t1, t2, time)
thermal_relaxation_error(t1, t2, time) ==
    [type |-> "thermal_relaxation", param |-> -1, num_qubits |-> 1,
     parts |-> << [t1 |-> t1, t2 |-> t2, time |-> time] >>]

\* QuantumError.expand(other)
expand(error, other) ==
    [error EXCEPT !.num_qubits = error.num_qubits + other.num_qubits,
                  !.parts = error.parts \o other.parts]

\* NoiseModel(basis_gates)
NoiseModel(basis_gates) ==
    [basis_gates |-> basis_gates, readout_errors |-> <<>>, quantum_errors |-> <<>>]

\* NoiseModel.add_quantum_error(error, instructions, qubits): an error added
\* under an instruction and qubits that already have one is composed with it
add_quantum_error(noise_model, error, instructions, qubits) ==
    LET at == <<instructions, qubits>>
        errors == noise_model.quantum_errors
    IN  [noise_model EXCEPT !.quantum_errors =
            IF at \in DOMAIN errors
            THEN [errors EXCEPT ![at] = Append(@, error)]
            ELSE errors @@ (at :> <<error>>)]

\* NoiseModel.add_readout_error(ReadoutError([[1-m0p1, m0p1], [m1p0, 1-m1p0]]), [qubit])
add_readout_error(qubit, columns, noise_model) ==
    [noise_model EXCEPT !.readout_errors =
        @ @@ (qubit :> [m0p1 |-> hundredths(columns["m0p1"]),
                        m1p0 |-> hundredths(columns["m1p0"])])]

\* the present columns among the configured gates, in the configured order
present_gates(gates, columns) == SelectSeq(gates, LAMBDA gate : gate \in columns)

\* the targets of a dict cell, in ascending order
RECURSIVE keys(_)
keys(dict) ==
    IF DOMAIN dict = {} THEN <<>>
    ELSE LET least == CHOOSE t \in DOMAIN dict : \A u \in DOMAIN dict : t <= u
         IN  <<least>> \o keys([u \in DOMAIN dict \ {least} |-> dict[u]])

\* variant: a missing error value is taken as zero
RECURSIVE add_depolarizing_1q_zero_filled(_, _, _, _, _)
add_depolarizing_1q_zero_filled(qubit, columns_present, columns, noise_model, i) ==
    IF i > Len(single_qubit_gates) THEN noise_model
    ELSE LET gate == single_qubit_gates[i] IN
         add_depolarizing_1q_zero_filled(qubit, columns_present, columns,
             IF gate \in columns_present
             THEN add_quantum_error(noise_model,
                      depolarizing_error(IF isna(columns[gate]) THEN 0
                                         ELSE hundredths(columns[gate]), 1),
                      code_name(gate), <<qubit>>)
             ELSE noise_model,
             i + 1)

\* NoiseCreator.__add_depolarizing_error: the loop over the single-qubit
\* gates from the i-th on, then the loop over the two-qubit gates
RECURSIVE add_depolarizing_1q(_, _, _, _, _)
add_depolarizing_1q(qubit, columns_present, columns, noise_model, i) ==
    IF i > Len(single_qubit_gates) THEN noise_model
    ELSE LET gate == single_qubit_gates[i] IN
         add_depolarizing_1q(qubit, columns_present, columns,
             IF gate \in columns_present /\ ~isna(columns[gate])
             THEN add_quantum_error(noise_model,
                      depolarizing_error(hundredths(columns[gate]), 1),
                      code_name(gate), <<qubit>>)
             ELSE noise_model,
             i + 1)

RECURSIVE add_depolarizing_targets(_, _, _, _, _)
add_depolarizing_targets(qubit, gate, error_data, targets, noise_model) ==
    IF targets = <<>> THEN noise_model
    ELSE add_depolarizing_targets(qubit, gate, error_data, Tail(targets),
             add_quantum_error(noise_model,
                 depolarizing_error(error_data[Head(targets)], 2),
                 code_name(gate), <<qubit, Head(targets)>>))

RECURSIVE add_depolarizing_2q(_, _, _, _, _)
add_depolarizing_2q(qubit, columns_present, columns, noise_model, i) ==
    IF i > Len(two_qubit_gates) THEN noise_model
    ELSE LET gate == two_qubit_gates[i] IN
         add_depolarizing_2q(qubit, columns_present, columns,
             IF gate \in columns_present /\ ~isna(columns[gate])
             THEN add_depolarizing_targets(qubit, gate, columns[gate].val,
                      keys(columns[gate].val), noise_model)
             ELSE noise_model,
             i + 1)

add_depolarizing_error(qubit, columns_present, columns, noise_model) ==
    add_depolarizing_2q(qubit, columns_present, columns,
        add_depolarizing_1q(qubit, columns_present, columns, noise_model, 1), 1)

\* variant: the T2 of the file is used as it is
t2_unclamped(csv_t2_value, t1_time) == csv_t2_value

\* t2_time = min(csv_t2_value, t1_time * 2)
t2_clamped(csv_t2_value, t1_time) ==
    IF csv_t2_value <= t1_time * 2 THEN csv_t2_value ELSE t1_time * 2

\* NoiseCreator.__add_thermal_error
RECURSIVE add_thermal_gates(_, _, _, _, _, _)
add_thermal_gates(gates, error, qubits, skipped, noise_model, i) ==
    IF i > Len(gates) THEN noise_model
    ELSE add_thermal_gates(gates, error, qubits, skipped,
             IF gates[i] \in skipped THEN noise_model
             ELSE add_quantum_error(noise_model, error, code_name(gates[i]), qubits),
             i + 1)

RECURSIVE add_thermal_targets(_, _, _, _, _, _, _)
add_thermal_targets(qubit, t1_time, t2_time, two_qubit_gate_time, targets, noise_dataframe, noise_model) ==
    IF targets = <<>> THEN noise_model
    ELSE LET target_qubit == Head(targets)
             neighbor == noise_dataframe.rows[target_qubit + 1]
             t1_time_q2 == micro(hundredths(neighbor["t1_time"]))
             t2_time_q2 == t2_clamped(micro(hundredths(neighbor["t2_time"])), t1_time_q2)
             time == nano(two_qubit_gate_time[target_qubit])
             thermal_error_2q ==
                 expand(thermal_relaxation_error(t1_time, t2_time, time),
                        thermal_relaxation_error(t1_time_q2, t2_time_q2, time))
         IN  add_thermal_targets(qubit, t1_time, t2_time, two_qubit_gate_time,
                 Tail(targets), noise_dataframe,
                 add_thermal_gates(
                     present_gates(two_qubit_gates, noise_dataframe.columns),
                     thermal_error_2q, <<qubit, target_qubit>>, {}, noise_model, 1))

add_thermal_error(qubit, columns, noise_model, noise_dataframe) ==
    LET t1_time == micro(hundredths(columns["t1_time"]))
        t2_time == t2_clamped(micro(hundredths(columns["t2_time"])), t1_time)
        thermal(time) == thermal_relaxation_error(t1_time, t2_time, time)
        thermal_error_1q == thermal(nano(hundredths(columns["1q_gate_time"])))
        two_qubit_gate_time == columns["2q_gate_time"]
        with_1q == add_thermal_gates(
                       present_gates(single_qubit_gates, noise_dataframe.columns),
                       thermal_error_1q, <<qubit>>, {"rz_gate_error"}, noise_model, 1)
        with_2q == IF isna(two_qubit_gate_time) THEN with_1q
                   ELSE add_thermal_targets(qubit, t1_time, t2_time,
                            two_qubit_gate_time.val, keys(two_qubit_gate_time.val),
                            noise_dataframe, with_1q)
        with_measure == add_quantum_error(with_2q,
                            thermal(nano(hundredths(columns["readout_time"]))),
                            "measure", <<qubit>>)
        with_reset == add_quantum_error(with_measure,
                          thermal(nano(hundredths(columns["reset_time"]))),
                          "reset", <<qubit>>)
    IN  \* the error of the RZ gate, of time 0, is added under "reset"
        add_quantum_error(with_reset, thermal(0), "reset", <<qubit>>)

\* columns[...] and noise_dataframe.at[...] find what they look up for this
\* qubit: the columns the errors read, and a row for every target qubit
row_readable(qubit, noise_dataframe) ==
    LET columns == noise_dataframe.rows[qubit + 1] IN
    /\ {"m0p1", "m1p0", "t1_time", "t2_time", "1q_gate_time", "2q_gate_time",
        "readout_time", "reset_time"} \subseteq noise_dataframe.columns
    /\ ~isna(columns["2q_gate_time"]) =>
          \A target_qubit \in DOMAIN columns["2q_gate_time"].val :
              (target_qubit + 1) \in DOMAIN noise_dataframe.rows

\* the loop of create_noise_model over noise_dataframe.iterrows()
RECURSIVE add_errors(_, _, _)
add_errors(noise_dataframe, noise_model, qubit) ==
    IF qubit >= Len(noise_dataframe.rows) THEN noise_model
    ELSE LET columns == noise_dataframe.rows[qubit + 1] IN
         add_errors(noise_dataframe,
             add_thermal_error(qubit, columns,
                 add_depolarizing_error(qubit, noise_dataframe.columns, columns,
                     add_readout_error(qubit, columns, noise_model)),
                 noise_dataframe),
             qubit + 1)

\* NoiseCreator.__get_basis_gates: the list returned, which is the list
\* CONFIG["non_gate_instructions"] itself with the gates appended to it
get_basis_gates(noise_dataframe) ==
    LET names(gates) ==
            LET present == present_gates(gates, noise_dataframe.columns) IN
            [i \in DOMAIN present |-> code_name(present[i])]
    IN  CONFIG.non_gate_instructions \o names(single_qubit_gates)
                                     \o names(two_qubit_gates)

\* NoiseCreator.__get_coupling_map: the coupling list
RECURSIVE get_coupling_map(_, _)
get_coupling_map(noise_dataframe, qubit) ==
    IF qubit >= Len(noise_dataframe.rows) THEN <<>>
    ELSE LET neighboring_qubits ==
                 noise_dataframe.rows[qubit + 1][neighboring_qubits_column]
         IN  (IF neighboring_qubits.kind = "list"
              THEN [i \in DOMAIN neighboring_qubits.val |->
                       <<qubit, neighboring_qubits.val[i]>>]
              ELSE <<>>)
             \o get_coupling_map(noise_dataframe, qubit + 1)

\* room in the list of basis gates (a call that would exceed the bound is not made)
MaxBasisGates == 6

(***************************************************************************)
(* NoiseCreator                                                            *)
(***************************************************************************)
link_noise_data_manager ==
    /\ nc_linked' = TRUE
    /\ Record(Outcome("link_noise_data_manager", NoKey, NoKey, NoKey, "none", TRUE, NoKey))
    /\ UNCHANGED <<noise_data, noise_models, simulators, key_availability, sm_linked, CONFIG>>

\* variant: the link is never checked
check_noise_data_manager_link_skipped == TRUE

\* TRUE when the link exists (no RuntimeError)
check_noise_data_manager_link == nc_linked

create_noise_model(noise_model_reference_key, data_reference_key, has_noise) ==
    LET op == "create_noise_model"
        new_key == validate_instance_name(noise_model_reference_key)
        Failed(err, blocker) ==
            /\ Record([Outcome(op, noise_model_reference_key, data_reference_key,
                               noise_model_reference_key, err, TRUE, blocker)
                          EXCEPT !.input = Bool(has_noise),
                                 !.message =
                              IF err = "BlockedKeyError"
                              THEN blocked_reference_key(key_availability,
                                       noise_model_reference_key, "noise_models")
                              ELSE NoMessage])
            /\ UNCHANGED <<noise_data, noise_models, simulators,
                           key_availability, nc_linked, sm_linked, CONFIG>>
    IN
    IF ~check_noise_data_manager_link THEN Failed("RuntimeError", NoKey)
    ELSE IF ~check_instance_key(data_reference_key, TRUE, noise_data)
    THEN Failed("KeyError", NoKey)
    ELSE IF ~check_instance_key(noise_model_reference_key, FALSE, noise_models)
    THEN Failed("KeyError", NoKey)
    ELSE IF check_blocked_key(key_availability, noise_model_reference_key,
                              "noise_models")
    THEN Failed("BlockedKeyError",
                blocked_keys(key_availability, "noise_models")[noise_model_reference_key])
    ELSE
        LET noise_dataframe == GetItem(noise_data, data_reference_key).dataframe
            basis_gate_list == get_basis_gates(noise_dataframe)
            readable == \A qubit \in 0..(Len(noise_dataframe.rows) - 1) :
                            row_readable(qubit, noise_dataframe)
        IN
        /\ Len(basis_gate_list) <= MaxBasisGates
        \* basis_gate_list is CONFIG["non_gate_instructions"], appended to
        /\ CONFIG' = [CONFIG EXCEPT !.non_gate_instructions = basis_gate_list]
        /\ IF has_noise /\ ~readable
           THEN \* a KeyError of pandas leaves the method while the errors are added
                /\ Record([Outcome(op, noise_model_reference_key, data_reference_key,
                                   new_key, "KeyError", FALSE, NoKey)
                              EXCEPT !.input = Bool(has_noise)])
                /\ UNCHANGED <<noise_data, noise_models, simulators,
                               key_availability, nc_linked, sm_linked>>
           ELSE /\ HasRoom
                /\ noise_models' = SetItem(noise_models, new_key,
                       [key |-> new_key,
                        data_source |-> data_reference_key,
                        noise_model |->
                            IF has_noise
                            THEN add_errors(noise_dataframe,
                                            NoiseModel(basis_gate_list), 0)
                            ELSE NoiseModel(basis_gate_list),
                        coupling_map |-> get_coupling_map(noise_dataframe, 0)])
                /\ key_availability' = block_key(key_availability, data_reference_key,
                                                 "noise_data", new_key)
                /\ Record([Outcome(op, noise_model_reference_key, data_reference_key,
                                   new_key, "none", TRUE, NoKey)
                              EXCEPT !.input = Bool(has_noise)])
                /\ UNCHANGED <<noise_data, simulators, nc_linked, sm_linked>>

\* variant: the removal first asks the key blocker
remove_noise_model_instance_checked(reference_key) ==
    LET op == "remove_noise_model_instance" IN
    IF ~check_instance_key(reference_key, TRUE, noise_models) THEN
        /\ Record(Outcome(op, reference_key, NoKey, reference_key, "KeyError", TRUE, NoKey))
        /\ UNCHANGED <<noise_data, noise_models, simulators, key_availability,
                       nc_linked, sm_linked, CONFIG>>
    ELSE IF check_blocked_key(key_availability, reference_key, "noise_models") THEN
        /\ Record(Outcome(op, reference_key, NoKey, reference_key, "BlockedKeyError", TRUE,
                          blocked_keys(key_availability, "noise_models")[reference_key]))
        /\ UNCHANGED <<noise_data, noise_models, simulators, key_availability,
                       nc_linked, sm_linked, CONFIG>>
    ELSE
        LET data_reference_key == GetItem(noise_models, reference_key).data_source IN
        IF ~can_unblock_key(key_availability, data_reference_key, "noise_data") THEN
            /\ Record(Outcome(op, reference_key, NoKey, reference_key, "KeyError", FALSE, NoKey))
            /\ UNCHANGED <<noise_data, noise_models, simulators, key_availability,
                           nc_linked, sm_linked, CONFIG>>
        ELSE
            /\ key_availability' = unblock_key(key_availability,
                                               data_reference_key, "noise_data")
            /\ noise_models' = DelItem(noise_models, reference_key)
            /\ Record(Outcome(op, reference_key, NoKey, reference_key, "none", TRUE, NoKey))
            /\ UNCHANGED <<noise_data, simulators, nc_linked, sm_linked, CONFIG>>

\* variant: the removal of a model also removes the data instance it was
\* built from
remove_noise_model_instance_cascading(reference_key) ==
    LET op == "remove_noise_model_instance" IN
    IF ~check_instance_key(reference_key, TRUE, noise_models) THEN
        /\ Record(Outcome(op, reference_key, NoKey, reference_key, "KeyError", TRUE, NoKey))
        /\ UNCHANGED <<noise_data, noise_models, simulators, key_availability,
                       nc_linked, sm_linked, CONFIG>>
    ELSE
        LET data_reference_key == GetItem(noise_models, reference_key).data_source IN
        IF ~can_unblock_key(key_availability, data_reference_key, "noise_data") THEN
            /\ Record(Outcome(op, reference_key, NoKey, reference_key, "KeyError", FALSE, NoKey))
            /\ UNCHANGED <<noise_data, noise_models, simulators, key_availability,
                           nc_linked, sm_linked, CONFIG>>
        ELSE
            /\ key_availability' = unblock_key(key_availability,
                                               data_reference_key, "noise_data")
            /\ noise_models' = DelItem(noise_models, reference_key)
            /\ noise_data' = IF data_reference_key \in KeysOf(noise_data)
                             THEN DelItem(noise_data, data_reference_key)
                             ELSE noise_data
            /\ Record(Outcome(op, reference_key, NoKey, reference_key, "none", TRUE, NoKey))
            /\ UNCHANGED <<simulators, nc_linked, sm_linked, CONFIG>>

\* variant: the instance is deleted before its lock is released
remove_noise_model_instance_delete_first(reference_key) ==
    LET op == "remove_noise_model_instance" IN
    IF ~check_instance_key(reference_key, TRUE, noise_models) THEN
        /\ Record(Outcome(op, reference_key, NoKey, reference_key, "KeyError", TRUE, NoKey))
        /\ UNCHANGED <<noise_data, noise_models, simulators, key_availability,
                       nc_linked, sm_linked, CONFIG>>
    ELSE
        LET data_reference_key == GetItem(noise_models, reference_key).data_source IN
        /\ noise_models' = DelItem(noise_models, reference_key)
        /\ IF ~can_unblock_key(key_availability, data_reference_key, "noise_data")
           THEN /\ Record(Outcome(op, reference_key, NoKey, reference_key,
                                  "KeyError", FALSE, NoKey))
                /\ UNCHANGED key_availability
           ELSE /\ key_availability' = unblock_key(key_availability,
                                                   data_reference_key, "noise_data")
                /\ Record(Outcome(op, reference_key, NoKey, reference_key,
                                  "none", TRUE, NoKey))
        /\ UNCHANGED <<noise_data, simulators, nc_linked, sm_linked, CONFIG>>

remove_noise_model_instance(reference_key) ==
    LET op == "remove_noise_model_instance" IN
    IF ~check_instance_key(reference_key, TRUE, noise_models) THEN
        /\ Record(Outcome(op, reference_key, NoKey, reference_key, "KeyError", TRUE, NoKey))
        /\ UNCHANGED <<noise_data, noise_models, simulators, key_availability,
                       nc_linked, sm_linked, CONFIG>>
    ELSE
        LET data_reference_key == GetItem(noise_models, reference_key).data_source IN
        IF ~can_unblock_key(key_availability, data_reference_key, "noise_data") THEN
            \* del blocked_keys[key] raises outside the try block
            /\ Record(Outcome(op, reference_key, NoKey, reference_key, "KeyError", FALSE, NoKey))
            /\ UNCHANGED <<noise_data, noise_models, simulators, key_availability,
                           nc_linked, sm_linked, CONFIG>>
        ELSE
            /\ key_availability' = unblock_key(key_availability,
                                               data_reference_key, "noise_data")
            /\ noise_models' = DelItem(noise_models, reference_key)
            /\ Record(Outcome(op, reference_key, NoKey, reference_key, "none", TRUE, NoKey))
            /\ UNCHANGED <<noise_data, simulators, nc_linked, sm_linked, CONFIG>>

(***************************************************************************)
(* SimulatorManager                                                        *)
(***************************************************************************)
link_noise_creator ==
    /\ sm_linked' = TRUE
    /\ Record(Outcome("link_noise_creator", NoKey, NoKey, NoKey, "none", TRUE, NoKey))
    /\ UNCHANGED <<noise_data, noise_models, simulators, key_availability, nc_linked, CONFIG>>

\* TRUE when the link exists (no RuntimeError)
check_noise_creator_link == sm_linked

create_simulator(noise_model_reference_key, simulator_reference_key) ==
    LET op == "create_simulator"
        new_key == validate_instance_name(simulator_reference_key)
        Failed(err) ==
            /\ Record(Outcome(op, simulator_reference_key, noise_model_reference_key,
                              simulator_reference_key, err, TRUE, NoKey))
            /\ UNCHANGED <<noise_data, noise_models, simulators,
                           key_availability, nc_linked, sm_linked, CONFIG>>
    IN
    IF ~check_noise_creator_link THEN Failed("RuntimeError")
    ELSE IF ~check_instance_key(noise_model_reference_key, TRUE, noise_models)
    THEN Failed("KeyError")
    ELSE IF ~check_instance_key(simulator_reference_key, FALSE, simulators)
    THEN Failed("KeyError")
    ELSE
        /\ HasRoom
        /\ simulators' = SetItem(simulators, new_key,
                                 [key |-> new_key,
                                  noise_model_source |-> noise_model_reference_key])
        /\ key_availability' = block_key(key_availability, noise_model_reference_key,
                                         "noise_models", new_key)
        /\ Record(Outcome(op, simulator_reference_key, noise_model_reference_key,
                          new_key, "none", TRUE, NoKey))
        /\ UNCHANGED <<noise_data, noise_models, nc_linked, sm_linked, CONFIG>>

remove_simulator_instance(reference_key) ==
    LET op == "remove_simulator_instance" IN
    IF ~check_instance_key(reference_key, TRUE, simulators) THEN
        /\ Record(Outcome(op, reference_key, NoKey, reference_key, "KeyError", TRUE, NoKey))
        /\ UNCHANGED <<noise_data, noise_models, simulators, key_availability,
                       nc_linked, sm_linked, CONFIG>>
    ELSE
        LET noise_model_reference_key ==
                GetItem(simulators, reference_key).noise_model_source IN
        IF ~can_unblock_key(key_availability, noise_model_reference_key,
                            "noise_models") THEN
            \* del blocked_keys[key] raises outside the try block
            /\ Record(Outcome(op, reference_key, NoKey, reference_key, "KeyError", FALSE, NoKey))
            /\ UNCHANGED <<noise_data, noise_models, simulators, key_availability,
                           nc_linked, sm_linked, CONFIG>>
        ELSE
            /\ key_availability' = unblock_key(key_availability,
                                               noise_model_reference_key,
                                               "noise_models")
            /\ simulators' = DelItem(simulators, reference_key)
            /\ Record(Outcome(op, reference_key, NoKey, reference_key, "none", TRUE, NoKey))
            /\ UNCHANGED <<noise_data, noise_models, nc_linked, sm_linked, CONFIG>>

\* variant: level 4 is let through
validate_optimization_level_off_by_one(optimization_level) ==
    ~(optimization_level < 0 \/ optimization_level > 4)

\* TRUE when the level is valid (no ValueError)
validate_optimization_level(optimization_level) ==
    ~(optimization_level < 0 \/ optimization_level > 3)

\* transpile and simulator.run are taken to succeed and to return the job
run_simulator(simulator_reference_key, optimization) ==
    LET op == "run_simulator"
        Ended(err, returns) ==
            Record([Outcome(op, simulator_reference_key, NoKey,
                            simulator_reference_key, err, TRUE, NoKey)
                       EXCEPT !.input = optimization, !.returns = returns])
    IN
    /\ IF ~validate_optimization_level(optimization) THEN Ended("ValueError", "None")
       ELSE IF ~check_instance_key(simulator_reference_key, TRUE, simulators)
       THEN Ended("KeyError", "None")
       ELSE Ended("none", "AerJob")
    /\ UNCHANGED <<noise_data, noise_models, simulators, key_availability,
                   nc_linked, sm_linked, CONFIG>>

(***************************************************************************)
(* The user calls the managers one call at a time, in any order.           *)
(***************************************************************************)
Next ==
    \/ \E k \in Keys, f \in FilePaths : import_csv_data(k, f)
    \/ \E k \in Keys : remove_noise_data_instance(k)
    \/ link_noise_data_manager
    \/ \E m \in Keys, d \in Keys : create_noise_model(m, d, TRUE)
    \/ \E k \in Keys : remove_noise_model_instance(k)
    \/ link_noise_creator
    \/ \E m \in Keys, s \in Keys : create_simulator(m, s)
    \/ \E k \in Keys : remove_simulator_instance(k)
    \/ \E s \in Keys, o \in OptimizationLevels : run_simulator(s, o)

Spec == Init /\ [][Next]_vars

(***************************************************************************)
(* Vocabulary of the properties                                            *)
(***************************************************************************)
DataLock == key_availability["noise_data"]
ModelLock == key_availability["noise_models"]

\* some noise model instance was built from data key D
DataUsed(D) == \E i \in DOMAIN noise_models : noise_models[i].data_source = D

\* some simulator instance was built from model key M
ModelUsed(M) == \E i \in DOMAIN simulators : simulators[i].noise_model_source = M

Registries == <<noise_data, noise_models, simulators>>

AllEmpty ==
    /\ noise_data = <<>> /\ noise_models = <<>> /\ simulators = <<>>
    /\ DOMAIN DataLock = {} /\ DOMAIN ModelLock = {}

d1 == <<"q">>
m1 == <<"a", "_", "b">>
s1 == <<"q">>

ChainData ==
    << [key |-> d1, file_name |-> "cal.csv", full_path |-> "/cwd/cal.csv",
        dataframe |-> processed([stem |-> "cal", ext |-> ".csv", content |-> CalTable])] >>
ChainModels ==
    LET noise_dataframe == ChainData[1].dataframe IN
    << [key |-> m1, data_source |-> d1,
        noise_model |-> add_errors(noise_dataframe,
                                   NoiseModel(ConfigLoaded.non_gate_instructions), 0),
        coupling_map |-> get_coupling_map(noise_dataframe, 0)] >>
ChainSimulators == << [key |-> s1, noise_model_source |-> m1] >>

\* registries and lock tables are exactly the given ones
ChainState(data, models, sims, data_locked, models_locked) ==
    /\ noise_data = data /\ noise_models = models /\ simulators = sims
    /\ DataLock = (IF data_locked THEN d1 :> m1 ELSE EmptyBlocked)
    /\ ModelLock = (IF models_locked THEN m1 :> s1 ELSE EmptyBlocked)

\* after import d1, create_noise_model(m1, d1), create_simulator(m1, s1)
ChainBuilt == ChainState(ChainData, ChainModels, ChainSimulators, TRUE, TRUE)

Removes(op, key) == last'.op = op /\ last'.arg = key

C4_Pinning ==
    /\ \A i \in DOMAIN noise_models :
          noise_models[i].data_source \in DOMAIN DataLock
    /\ \A i \in DOMAIN simulators :
          simulators[i].noise_model_source \in DOMAIN ModelLock

(***************************************************************************)
(* C5.  No dangling locks, no lock leaks: every lock entry names a blocker *)
(* that exists in the dependent registry and whose source is the blocked   *)
(* key; with no dependent instance left the lock table is empty.           *)
(***************************************************************************)
C5_NoDanglingLocks ==
    /\ \A k \in DOMAIN DataLock :
          \E i \in DOMAIN noise_models :
             noise_models[i].key = DataLock[k] /\ noise_models[i].data_source = k
    /\ \A k \in DOMAIN ModelLock :
          \E i \in DOMAIN simulators :
             simulators[i].key = ModelLock[k] /\ simulators[i].noise_model_source = k
    /\ (noise_models = <<>> => DOMAIN DataLock = {})
    /\ (simulators = <<>> => DOMAIN ModelLock = {})

(***************************************************************************)
(* C6.  Key reuse: creating an instance under a key k that is not          *)
(* registered (never used, or removed again) succeeds when k has no lock   *)
(* entry, and fails with BlockedKeyError, registering nothing, when k has  *)
(* one.  k is the key under which the instance is stored.                  *)
(***************************************************************************)
C6_KeyReuse ==
    [][ /\ (/\ last'.op = "import_csv_data"
            /\ last'.err # "FileTypeError"
            /\ validate_instance_name(last'.arg) \notin KeysOf(noise_data))
            => LET k == validate_instance_name(last'.arg) IN
               IF k \in DOMAIN DataLock
               THEN last'.err = "BlockedKeyError" /\ UNCHANGED noise_data
               ELSE last'.err = "none" /\ k \in KeysOf(noise_data')
        /\ (/\ last'.op = "create_noise_model"
            /\ nc_linked
            /\ last'.source \in KeysOf(noise_data)
            /\ validate_instance_name(last'.arg) \notin KeysOf(noise_models))
            => LET k == validate_instance_name(last'.arg) IN
               IF k \in DOMAIN ModelLock
               THEN last'.err = "BlockedKeyError" /\ UNCHANGED noise_models
               ELSE last'.err = "none" /\ k \in KeysOf(noise_models') ]_vars

(***************************************************************************)
(* C7.  import_csv_data with a key whose normalized form is already in the *)
(* data registry fails with a key-existence error; the registries and the  *)
(* lock tables are unchanged.                                              *)
(***************************************************************************)
C7_ImportExistingKeyFails ==
    [][ (/\ last'.op = "import_csv_data"
         /\ validate_instance_name(last'.arg) \in KeysOf(noise_data))
        => /\ last'.err = "KeyExistanceError"
           /\ last'.handled
           /\ UNCHANGED <<noise_data, noise_models, simulators, key_availability>> ]_vars

\* an import typed with a space was refused because the rewritten key exists
C7_Witness ==
    /\ last.op = "import_csv_data"
    /\ last.err = "KeyExistanceError"
    /\ last.arg # last.key
    /\ last.key = validate_instance_name(last.arg)
    /\ last.key \in KeysOf(noise_data)

(***************************************************************************)
(* C8.  create_noise_model and create_simulator never replace a registered *)
(* instance: when the key under which the new instance would be stored     *)
(* (the typed key with spaces rewritten to '_') is already registered, the *)
(* call fails with a key-existence error and the registry and the lock     *)
(* tables are unchanged.                                                   *)
(***************************************************************************)
C8_CreateNeverReplaces ==
    [][ /\ (/\ last'.op = "create_noise_model"
            /\ nc_linked
            /\ last'.source \in KeysOf(noise_data)
            /\ validate_instance_name(last'.arg) \in KeysOf(noise_models))
            => /\ last'.err = "KeyError"
               /\ UNCHANGED <<noise_models, key_availability>>
        /\ (/\ last'.op = "create_simulator"
            /\ sm_linked
            /\ last'.source \in KeysOf(noise_models)
            /\ validate_instance_name(last'.arg) \in KeysOf(simulators))
            => /\ last'.err = "KeyError"
               /\ UNCHANGED <<simulators, key_availability>> ]_vars

(***************************************************************************)
(* C9.  Before the link is made, create_noise_model (create_simulator)     *)
(* fails with the not-linked error, registers nothing and places no lock;  *)
(* once linked, the call with valid keys (source registered, new key       *)
(* neither registered nor locked) succeeds.                                *)
(***************************************************************************)
C9_LinkRequired ==
    [][ /\ (last'.op = "create_noise_model" /\ ~nc_linked)
            => /\ last'.err = "RuntimeError" /\ last'.handled
               /\ UNCHANGED <<noise_data, noise_models, simulators, key_availability>>
        /\ (last'.op = "create_simulator" /\ ~sm_linked)
            => /\ last'.err = "RuntimeError" /\ last'.handled
               /\ UNCHANGED <<noise_data, noise_models, simulators, key_availability>>
        /\ (/\ last'.op = "create_noise_model" /\ nc_linked
            /\ last'.source \in KeysOf(noise_data)
            /\ last'.arg \notin KeysOf(noise_models)
            /\ last'.arg \notin DOMAIN ModelLock)
            => /\ last'.err = "none"
               /\ validate_instance_name(last'.arg) \in KeysOf(noise_models')
               /\ last'.source \in DOMAIN key_availability'["noise_data"]
        /\ (/\ last'.op = "create_simulator" /\ sm_linked
            /\ last'.source \in KeysOf(noise_models)
            /\ last'.arg \notin KeysOf(simulators))
            => /\ last'.err = "none"
               /\ validate_instance_name(last'.arg) \in KeysOf(simulators')
               /\ last'.source \in DOMAIN key_availability'["noise_models"] ]_vars

\* a create_noise_model call with a registered data key and a free model key
\* was refused only because the NoiseDataManager is not linked
C9_Witness ==
    /\ last.op = "create_noise_model"
    /\ last.err = "RuntimeError"
    /\ ~nc_linked
    /\ last.source \in KeysOf(noise_data)
    /\ noise_models = <<>>
    /\ DOMAIN DataLock = {}

(***************************************************************************)
(* C10.  In each manager, removing an absent key fails with a missing-key  *)
(* error and changes no registry and no lock table; removing a present key *)
(* that has no lock entry deletes exactly that key's entry.                *)
(***************************************************************************)
C10_Remove ==
    [][ /\ (last'.op = "remove_noise_data_instance")
            => IF last'.arg \notin KeysOf(noise_data)
               THEN /\ last'.err = "KeyExistanceError" /\ last'.handled
                    /\ UNCHANGED <<Registries, key_availability>>
               ELSE (last'.arg \notin DOMAIN DataLock)
                    => /\ last'.err = "none"
                       /\ KeysOf(noise_data') = KeysOf(noise_data) \ {last'.arg}
        /\ (last'.op = "remove_noise_model_instance")
            => IF last'.arg \notin KeysOf(noise_models)
               THEN /\ last'.err = "KeyError" /\ last'.handled
                    /\ UNCHANGED <<Registries, key_availability>>
               ELSE (last'.arg \notin DOMAIN ModelLock)
                    => /\ last'.err = "none"
                       /\ KeysOf(noise_models') = KeysOf(noise_models) \ {last'.arg}
        /\ (last'.op = "remove_simulator_instance")
            => IF last'.arg \notin KeysOf(simulators)
               THEN /\ last'.err = "KeyError" /\ last'.handled
                    /\ UNCHANGED <<Registries, key_availability>>
               ELSE /\ last'.err = "none"
                    /\ KeysOf(simulators') = KeysOf(simulators) \ {last'.arg} ]_vars

(***************************************************************************)
(* C11.  A successful create_noise_model(model_key, data_key) adds exactly *)
(* one entry to the model registry, stored under the normalized model_key  *)
(* with data_source = data_key, and sets the data lock entry of data_key   *)
(* to that stored key; a successful create_simulator does the same for the *)
(* simulator registry and the model lock table.                            *)
(***************************************************************************)
C11_CreateRegistersAndLocks ==
    [][ /\ (last'.op = "create_noise_model" /\ last'.err = "none")
            => LET k == validate_instance_name(last'.arg) IN
               /\ Len(noise_models') = Len(noise_models) + 1
               /\ noise_models' = Append(noise_models, noise_models'[Len(noise_models')])
               /\ noise_models'[Len(noise_models')].key = k
               /\ noise_models'[Len(noise_models')].data_source = last'.source
               /\ key_availability'["noise_data"][last'.source] = k
        /\ (last'.op = "create_simulator" /\ last'.err = "none")
            => LET k == validate_instance_name(last'.arg) IN
               /\ simulators' = Append(simulators,
                                       [key |-> k, noise_model_source |-> last'.source])
               /\ key_availability'["noise_models"][last'.source] = k ]_vars

(***************************************************************************)
(* exceptions.py: the subclasses of INSError, the project's user errors    *)
(***************************************************************************)
INSError ==
    {"BlockedKeyError", "InputArgumentError", "KeyExistanceError", "MissingLinkError"}

(***************************************************************************)
(* C12.  unblock_key(key, instance_type), as reached by the removal of a   *)
(* registered noise model or simulator: when key has no entry in that lock *)
(* table the call fails with a project error which the manager reports,    *)
(* and the lock tables are unchanged; when key has an entry exactly that   *)
(* entry is removed.                                                       *)
(***************************************************************************)
C12_Unblock ==
    [][ /\ (/\ last'.op = "remove_noise_model_instance"
            /\ last'.arg \in KeysOf(noise_models))
            => LET key == GetItem(noise_models, last'.arg).data_source IN
               IF key \notin DOMAIN DataLock
               THEN /\ last'.err \in INSError /\ last'.handled
                    /\ UNCHANGED key_availability
               ELSE key_availability' =
                        [key_availability EXCEPT !["noise_data"] =
                            [k \in (DOMAIN DataLock) \ {key} |-> DataLock[k]]]
        /\ (/\ last'.op = "remove_simulator_instance"
            /\ last'.arg \in KeysOf(simulators))
            => LET key == GetItem(simulators, last'.arg).noise_model_source IN
               IF key \notin DOMAIN ModelLock
               THEN /\ last'.err \in INSError /\ last'.handled
                    /\ UNCHANGED key_availability
               ELSE key_availability' =
                        [key_availability EXCEPT !["noise_models"] =
                            [k \in (DOMAIN ModelLock) \ {key} |-> ModelLock[k]]] ]_vars

(***************************************************************************)
(* C13.  check_blocked_key(key, instance_type), as reached by              *)
(* import_csv_data (normalized key, "noise_data") and create_noise_model   *)
(* (key as typed, "noise_models") once their earlier checks have passed:   *)
(* BlockedKeyError is raised if and only if key has an entry in that lock  *)
(* table; the error carries the key, the blocker recorded for it and both  *)
(* type labels; the check changes no lock table.                           *)
(***************************************************************************)
C13_CheckBlockedKey ==
    [][ /\ (/\ last'.op = "import_csv_data"
            /\ validate_instance_name(last'.arg) \notin KeysOf(noise_data))
            => LET key == validate_instance_name(last'.arg) IN
               /\ (last'.err = "BlockedKeyError") <=> (key \in DOMAIN DataLock)
               /\ (last'.err = "BlockedKeyError")
                    => last'.message = [reference_key |-> key,
                                        instance_type |-> "noise data",
                                        blocker_instance_type |-> "noise model",
                                        blocker |-> DataLock[key]]
               /\ UNCHANGED key_availability
        /\ (/\ last'.op = "create_noise_model"
            /\ nc_linked
            /\ last'.source \in KeysOf(noise_data)
            /\ last'.arg \notin KeysOf(noise_models))
            => LET key == last'.arg IN
               /\ (last'.err = "BlockedKeyError") <=> (key \in DOMAIN ModelLock)
               /\ (last'.err = "BlockedKeyError")
                    => /\ last'.message = [reference_key |-> key,
                                           instance_type |-> "noise model",
                                           blocker_instance_type |-> "simulator",
                                           blocker |-> ModelLock[key]]
                       /\ UNCHANGED key_availability ]_vars

\* a model key was refused because a simulator still blocks it
C13_Witness ==
    /\ last.op = "create_noise_model"
    /\ last.err = "BlockedKeyError"
    /\ last.message.reference_key = last.arg
    /\ last.message.blocker_instance_type = "simulator"
    /\ \E i \in DOMAIN simulators :
          /\ simulators[i].key = last.message.blocker
          /\ simulators[i].noise_model_source = last.arg

(***************************************************************************)
(* The KeyBlocker object called directly (core/utils/key_blocker.py): any  *)
(* key, either instance type, any blocker key, whatever the registries     *)
(* hold.                                                                   *)
(***************************************************************************)
InstanceTypes == {"noise_data", "noise_models"}

InitKeyBlocker ==
    /\ CONFIG = ConfigLoaded
    /\ noise_data = ChainData
    /\ noise_models = <<>>
    /\ simulators = <<>>
    /\ key_availability = KeyBlockerInit
    /\ nc_linked = FALSE
    /\ sm_linked = FALSE
    /\ last = NoCall

KeyBlocker_block_key(key, instance_type, blocker_key) ==
    /\ key_availability' = block_key(key_availability, key, instance_type, blocker_key)
    /\ Record(Outcome("block_key", key, NoKey, key, "none", TRUE, blocker_key))
    /\ UNCHANGED <<noise_data, noise_models, simulators, nc_linked, sm_linked, CONFIG>>

KeyBlocker_unblock_key(key, instance_type) ==
    IF can_unblock_key(key_availability, key, instance_type)
    THEN /\ key_availability' = unblock_key(key_availability, key, instance_type)
         /\ Record(Outcome("unblock_key", key, NoKey, key, "none", TRUE, NoKey))
         /\ UNCHANGED <<noise_data, noise_models, simulators, nc_linked, sm_linked, CONFIG>>
    ELSE /\ Record(Outcome("unblock_key", key, NoKey, key, "KeyError", FALSE, NoKey))
         /\ UNCHANGED <<noise_data, noise_models, simulators, key_availability,
                        nc_linked, sm_linked, CONFIG>>

KeyBlocker_check_blocked_key(key, instance_type) ==
    /\ IF check_blocked_key(key_availability, key, instance_type)
       THEN Record([Outcome("check_blocked_key", key, NoKey, key, "BlockedKeyError",
                            FALSE, blocked_keys(key_availability, instance_type)[key])
                       EXCEPT !.message =
                           blocked_reference_key(key_availability, key, instance_type)])
       ELSE Record(Outcome("check_blocked_key", key, NoKey, key, "none", TRUE, NoKey))
    /\ UNCHANGED <<noise_data, noise_models, simulators, key_availability,
                   nc_linked, sm_linked, CONFIG>>

NextKeyBlocker ==
    \/ \E k \in Keys, t \in InstanceTypes, b \in Keys : KeyBlocker_block_key(k, t, b)
    \/ \E k \in Keys, t \in InstanceTypes : KeyBlocker_unblock_key(k, t)
    \/ \E k \in Keys, t \in InstanceTypes : KeyBlocker_check_blocked_key(k, t)

SpecKeyBlocker == InitKeyBlocker /\ [][NextKeyBlocker]_vars

(***************************************************************************)
(* C14.  block_key(key, instance_type, blocker_key) sets the entry of key  *)
(* in that type's lock table to blocker_key, overwriting any previous      *)
(* blocker, whether or not key is in a registry; every other entry of the  *)
(* table, the other table and all registries are unchanged.                *)
(***************************************************************************)
C14_BlockKey ==
    [][ \A t \in InstanceTypes :
          KeyBlocker_block_key(last'.arg, t, last'.blocker)
          => LET key == last'.arg
                 other == CHOOSE o \in InstanceTypes : o # t
             IN  /\ last'.err = "none"
                 /\ DOMAIN key_availability'[t] = (DOMAIN key_availability[t]) \cup {key}
                 /\ key_availability'[t][key] = last'.blocker
                 /\ \A k \in (DOMAIN key_availability[t]) \ {key} :
                       key_availability'[t][k] = key_availability[t][k]
                 /\ key_availability'[other] = key_availability[other]
                 /\ UNCHANGED Registries ]_vars

\* a key that is in no registry got a lock entry next to another entry
C14_Witness ==
    /\ last.op = "block_key"
    /\ last.arg \notin KeysOf(noise_data) \cup KeysOf(noise_models) \cup KeysOf(simulators)
    /\ last.arg \in DOMAIN ModelLock
    /\ ModelLock[last.arg] = last.blocker
    /\ Cardinality(DOMAIN ModelLock) = 2

(***************************************************************************)
(* C15.  Listing the data instances gives one row per registered key in    *)
(* insertion order: a successful import adds the row of its key at the     *)
(* end, a removal takes the row of its key out and keeps the order of the  *)
(* others (so a key removed and imported again is listed last); has_data   *)
(* is false, with no rows, exactly when the registry is empty.             *)
(***************************************************************************)
C15_Listing ==
    [][ LET before == get_instance_data(noise_data)
            after == get_instance_data(noise_data')
        IN
        /\ Len(after.rows) = Cardinality(KeysOf(noise_data'))
        /\ { after.rows[i][1] : i \in DOMAIN after.rows } = KeysOf(noise_data')
        /\ after.has_data <=> (noise_data' # <<>>)
        /\ (~after.has_data) <=> (after.rows = <<>>)
        /\ (last'.op = "import_csv_data" /\ last'.err = "none")
            => /\ Len(after.rows) = Len(before.rows) + 1
               /\ SubSeq(after.rows, 1, Len(before.rows)) = before.rows
               /\ after.rows[Len(after.rows)] =
                     <<last'.key, "cal.csv", "/cwd/cal.csv">>
        /\ (last'.op = "remove_noise_data_instance" /\ last'.err = "none")
            => after.rows = SelectSeq(before.rows, LAMBDA row : row[1] # last'.arg)
        /\ (last'.op \notin {"import_csv_data", "remove_noise_data_instance"}
                \/ last'.err # "none")
            => after = before ]_vars

\* two instances are listed, the one imported last at the end, although its
\* key sorts first
C15_Witness ==
    /\ last.op = "import_csv_data" /\ last.err = "none"
    /\ last.arg = <<"a", " ", "b">>
    /\ Len(get_instance_data(noise_data).rows) = 2
    /\ get_instance_data(noise_data).rows[1][1] = <<"q">>
    /\ get_instance_data(noise_data).rows[2][1] = <<"a", "_", "b">>

(***************************************************************************)
(* C16.  run_simulator with an optimization level outside 0..3 fails with  *)
(* the invalid-level error and returns no job; with a level in 0..3 and a  *)
(* registered simulator key it returns a job; in every case the registries *)
(* and the lock tables are unchanged.                                      *)
(***************************************************************************)
C16_RunSimulator ==
    [][ (last'.op = "run_simulator")
        => /\ (last'.input \notin 0..3)
                => /\ last'.err = "ValueError" /\ last'.handled
                   /\ last'.returns = "None"
           /\ (last'.input \in 0..3 /\ last'.arg \in KeysOf(simulators))
                => /\ last'.err = "none"
                   /\ last'.returns = "AerJob"
           /\ UNCHANGED <<noise_data, noise_models, simulators, key_availability>> ]_vars

\* level 4 was refused for a simulator that exists
C16_Witness ==
    /\ last.op = "run_simulator"
    /\ last.input = 4
    /\ last.err = "ValueError"
    /\ last.arg \in KeysOf(simulators)

(***************************************************************************)
(* The NoiseDataManager on its own: calibration files of up to MaxRows     *)
(* qubits are imported under one key, listed rows are queried and the      *)
(* instance is removed again.                                              *)
(***************************************************************************)
MaxRows == 1

\* the multi-valued cells of the files
CellA == Str(<<"3", ":", "0.01", ";", "5", ":", "0.02">>)
CellB == Str(<<"5", ":", "0.02">>)
CellC == Str(<<"5", ":", "0.04", ";", "3", ":", "0.03">>)

\* rows: both cells empty, only the first, only the second, both
RawRows ==
    { RawRow(NaN, NaN), RawRow(CellA, NaN), RawRow(NaN, CellC),
      RawRow(CellA, CellB), RawRow(CellB, CellC) }

RECURSIVE SeqsUpTo(_, _)
SeqsUpTo(S, n) ==
    IF n = 0 THEN { <<>> }
    ELSE LET shorter == SeqsUpTo(S, n - 1) IN
         shorter \cup { Append(s, x) : s \in { t \in shorter : Len(t) = n - 1 }, x \in S }

\* a file without the first multi-valued column
NoEcrTable ==
    [columns |-> {"t1_time", "2q_gate_time"},
     rows |-> << [c \in {"t1_time", "2q_gate_time"} |->
                     IF c = "t1_time" THEN Num(100) ELSE CellC] >>]

\* a file of three qubits whose qubit 2 holds "3:0.01;5:0.02"
ExampleTable == RawTable(<< RawRow(NaN, NaN), RawRow(CellB, CellC), RawRow(CellA, NaN) >>)

CsvFiles ==
    { [stem |-> "cal", ext |-> ".csv", content |-> RawTable(rows)] :
         rows \in SeqsUpTo(RawRows, MaxRows) }
    \cup { [stem |-> "cal", ext |-> ".csv", content |-> t] : t \in {NoEcrTable, ExampleTable} }

\* qubits arguments of get_qubit_noise_information
QubitInputs ==
    { Num(n) : n \in -1..(MaxRows + 2) }
    \cup { List(<<0, 1>>), List(<<1, 0>>), List(<<0, MaxRows>>), List(<<0, -1, MaxRows>>) }

\* qubits arguments of get_qubit_noise_data
QubitCounts == { None, Num(1), Num(MaxRows + 1) }

NextNoiseData ==
    \/ \E f \in CsvFiles : import_csv_data(d1, f)
    \/ \E k \in Keys : remove_noise_data_instance(k)
    \/ \E k \in Keys, q \in QubitInputs : get_qubit_noise_information(k, q)
    \/ \E k \in Keys, n \in QubitCounts : get_qubit_noise_data(k, n)

SpecNoiseData == Init /\ [][NextNoiseData]_vars


\* C17: on a table of n rows the qubit numbers 0..n-1 are accepted and no
\* others: a query of the stored instance whose numbers all lie in 0..n-1
\* shows the rows asked for, in the order asked; otherwise it ends with the
\* InputArgumentError of the first number refused, the negative-qubit error
\* for a number below 0 and the out-of-range error for n and above, and no
\* qubit data is shown, whatever numbers came before it in the list.
C17_QubitValidation ==
    [][ (last'.op = "get_qubit_noise_information" /\ last'.key \in KeysOf(noise_data)) =>
        LET rows == GetItem(noise_data, last'.key).dataframe.rows
            n == Len(rows)
            qubits == IF last'.input.kind = "num" THEN <<last'.input.val>>
                      ELSE last'.input.val
            refused == { i \in DOMAIN qubits : qubits[i] \notin 0..(n - 1) }
        IN  /\ noise_data' = noise_data
            /\ refused = {} =>
                  /\ last'.err = "none"
                  /\ last'.returns = [i \in DOMAIN qubits |-> rows[qubits[i] + 1]]
            /\ refused # {} =>
                  LET first == CHOOSE i \in refused : \A j \in refused : i <= j IN
                  /\ last'.err = "InputArgumentError"
                  /\ last'.handled
                  /\ last'.returns = "None"
                  /\ last'.message.qubit = qubits[first]
                  /\ last'.message.error =
                        IF qubits[first] < 0 THEN "negative_qubit_number"
                        ELSE "large_qubit_number"
      ]_vars

\* a list whose second number is the number of rows was refused
C17_Witness ==
    /\ last.op = "get_qubit_noise_information"
    /\ last.key \in KeysOf(noise_data)
    /\ Len(GetItem(noise_data, last.key).dataframe.rows) = MaxRows
    /\ last.input = List(<<0, MaxRows>>)
    /\ last.err = "InputArgumentError"
    /\ last.message.error = "large_qubit_number"
    /\ last.message.qubit = MaxRows


\* C18: a query of qubit data, by either query method, leaves the registry as
\* it was; under a key that is not in the registry it ends with the manager's
\* handled missing-key error, and under a stored key, when the rows asked for
\* are in the table, it yields the cells of exactly those rows.
C18_QueryQubitData ==
    [][ last'.op \in {"get_qubit_noise_information", "get_qubit_noise_data"} =>
        /\ noise_data' = noise_data
        /\ last'.key \notin KeysOf(noise_data) =>
              (last'.handled /\ last'.err = "KeyExistanceError")
        /\ (last'.key \in KeysOf(noise_data) /\ last'.err = "none") =>
              LET rows == GetItem(noise_data, last'.key).dataframe.rows
                  asked == IF last'.input.kind = "list" THEN last'.input.val
                           ELSE <<last'.input.val>>
              IN  IF last'.op = "get_qubit_noise_information"
                  THEN last'.returns = [i \in DOMAIN asked |-> rows[asked[i] + 1]]
                  ELSE \A qubit \in DOMAIN last'.returns :
                          last'.returns[qubit] = rows[qubit + 1]
      ]_vars

\* get_qubit_noise_data was called with a key the registry does not hold
C18_Witness ==
    /\ last.op = "get_qubit_noise_data"
    /\ last.key \notin KeysOf(noise_data)
    /\ last.err = "KeyError"
    /\ ~last.handled


\* the fragments of a cell "n1:v1;n2:v2;...", read off its tokens: the k-th
\* target and the k-th value
fragment_count(cell) == (Len(cell.val) + 1) \div 4
fragment_target(cell, k) == int(<<cell.val[4 * k - 3]>>)
fragment_value(cell, k) == float(<<cell.val[4 * k - 1]>>)
cell_targets(cell) == [k \in 1..fragment_count(cell) |-> fragment_target(cell, k)]

\* the multi-valued cells of qubit row that are filled in the file, by their
\* place in the configured order
filled(raw, row) ==
    { i \in DOMAIN multi_data_columns :
         /\ multi_data_columns[i] \in raw.columns
         /\ ~isna(raw.rows[row][multi_data_columns[i]]) }

\* C19: when a file is imported, every filled multi-valued cell
\* "n1:v1;n2:v2;..." is stored as the mapping n1 -> v1, n2 -> v2, ..., and
\* when it is the first filled multi-valued cell of its row, the row's
\* neighboring_qubits is the list n1, n2, ... in the order of the cell; the
\* cell "3:0.01;5:0.02" of qubit 2 becomes {3: 0.01, 5: 0.02} with the
\* neighbors [3, 5].
C19_CellTransform ==
    [][ (last'.op = "import_csv_data" /\ last'.err = "none") =>
        \A f \in CsvFiles :
          import_csv_data(d1, f) =>
          LET raw == f.content
              stored == GetItem(noise_data', d1).dataframe
          IN  /\ \A row \in DOMAIN raw.rows : \A i \in filled(raw, row) :
                    LET cell == raw.rows[row][multi_data_columns[i]]
                        targets == { fragment_target(cell, k) : k \in 1..fragment_count(cell) }
                    IN  /\ stored.rows[row][multi_data_columns[i]] =
                              Dict([t \in targets |->
                                       fragment_value(cell,
                                           CHOOSE k \in 1..fragment_count(cell) :
                                               fragment_target(cell, k) = t)])
                        /\ (\A j \in filled(raw, row) : i <= j) =>
                              stored.rows[row][neighboring_qubits_column] =
                                  List(cell_targets(cell))
              /\ raw = ExampleTable =>
                    /\ stored.rows[3]["ecr_error"] = Dict((3 :> 1) @@ (5 :> 2))
                    /\ stored.rows[3][neighboring_qubits_column] = List(<<3, 5>>)
      ]_vars

\* the file with "3:0.01;5:0.02" at qubit 2 was imported
C19_Witness ==
    /\ last.op = "import_csv_data"
    /\ last.err = "none"
    /\ d1 \in KeysOf(noise_data)
    /\ LET rows == GetItem(noise_data, d1).dataframe.rows IN
       /\ Len(rows) = 3
       /\ rows[3]["ecr_error"] = Dict((3 :> 1) @@ (5 :> 2))
       /\ rows[3][neighboring_qubits_column] = List(<<3, 5>>)

\* C20: in every row of an imported file, neighboring_qubits comes from the
\* first configured multi-valued column whose cell is filled in that row and
\* from no other: the filled cells of later columns are stored as mappings
\* and leave the neighbors as they were, an empty cell in an earlier column
\* hands the derivation to the next filled one, and a row with no filled
\* multi-valued cell keeps the empty neighboring_qubits it was given.
C20_NeighborsDerivedOnce ==
    [][ (last'.op = "import_csv_data" /\ last'.err = "none") =>
        \A f \in CsvFiles :
          import_csv_data(d1, f) =>
          LET raw == f.content
              stored == GetItem(noise_data', d1).dataframe
          IN  \A row \in DOMAIN raw.rows :
                 /\ \A i \in filled(raw, row) :
                       stored.rows[row][multi_data_columns[i]].kind = "dict"
                 /\ IF filled(raw, row) = {}
                    THEN isna(stored.rows[row][neighboring_qubits_column])
                    ELSE LET first == CHOOSE i \in filled(raw, row) :
                                         \A j \in filled(raw, row) : i <= j
                         IN  stored.rows[row][neighboring_qubits_column] =
                                List(cell_targets(raw.rows[row][multi_data_columns[first]]))
      ]_vars

\* a file was imported whose qubit 0 fills neither column and whose qubit 1
\* fills both, with different targets
C20_Witness ==
    /\ last.op = "import_csv_data"
    /\ last.err = "none"
    /\ d1 \in KeysOf(noise_data)
    /\ LET rows == GetItem(noise_data, d1).dataframe.rows IN
       /\ Len(rows) > 1
       /\ isna(rows[1]["ecr_error"]) /\ isna(rows[1]["2q_gate_time"])
       /\ isna(rows[1][neighboring_qubits_column])
       /\ rows[2]["ecr_error"] = Dict((5 :> 2))
       /\ rows[2]["2q_gate_time"] = Dict((5 :> 4) @@ (3 :> 3))
       /\ rows[2][neighboring_qubits_column] = List(<<5>>)


(***************************************************************************)
(* The NoiseDataManager and the NoiseCreator with calibration files that   *)
(* report gate errors: the noise models built from them.                   *)
(***************************************************************************)
\* two coupled qubits; T2 above 2 * T1 on both, the sx error of qubit 1 missing
ClampTable ==
    Table(CalColumns,
          << CalRow(100, 250, Float(3), Float(1),
                    Str(<<"1", ":", "0.01">>), Str(<<"1", ":", "0.03">>)),
             CalRow(50, 120, NaN, Float(2),
                    Str(<<"0", ":", "0.02">>), Str(<<"0", ":", "0.04">>)) >>)

\* one qubit with no neighbor, T2 below 2 * T1, of a device without rz and sx
EcrOnlyTable ==
    Table(CalColumns \ {"sx_gate_error", "rz_gate_error"},
          << CalRow(100, 150, NaN, NaN, NaN, NaN) >>)

\* one qubit whose cells name the qubits 3 and 5, which the file has no rows for
DanglingTable ==
    Table(CalColumns, << CalRow(100, 250, Float(3), Float(1), CellA, CellA) >>)

BuildFiles ==
    { [stem |-> "clamp", ext |-> ".csv", content |-> ClampTable],
      [stem |-> "ecr_only", ext |-> ".csv", content |-> EcrOnlyTable],
      [stem |-> "dangling", ext |-> ".csv", content |-> DanglingTable] }

BuildKeys == { <<"q">>, <<"a", "_", "b">> }

NextNoiseCreator ==
    \/ \E k \in BuildKeys, f \in BuildFiles : import_csv_data(k, f)
    \/ \E k \in BuildKeys : remove_noise_data_instance(k)
    \/ link_noise_data_manager
    \/ \E m \in BuildKeys, d \in BuildKeys, has_noise \in BOOLEAN :
          create_noise_model(m, d, has_noise)
    \/ \E k \in BuildKeys : remove_noise_model_instance(k)

SpecNoiseCreator == Init /\ [][NextNoiseCreator]_vars


built_model == GetItem(noise_models', last'.key).noise_model
built_from == GetItem(noise_data, last'.source).dataframe
BuiltWithNoise ==
    last'.op = "create_noise_model" /\ last'.err = "none" /\ last'.input.val

\* C22: in every model built with noise, each part of each thermal relaxation
\* error is built with the T1 of the qubit it acts on and with the smaller of
\* that qubit's T2 and twice its T1, never more than twice the T1; in an
\* error on a pair the second part uses the neighbor's own T1 and T2.
C22_T2Clamp ==
    [][ BuiltWithNoise =>
        \A at \in DOMAIN built_model.quantum_errors :
          \A i \in DOMAIN built_model.quantum_errors[at] :
            LET error == built_model.quantum_errors[at][i] IN
            error.type = "thermal_relaxation" =>
              /\ Len(error.parts) = Len(at[2])
              /\ \A p \in DOMAIN error.parts :
                    LET row == built_from.rows[at[2][p] + 1]
                        T1 == row["t1_time"].val
                        T2 == row["t2_time"].val
                    IN  /\ error.parts[p].t1 = T1 * 100000
                        /\ error.parts[p].t2 =
                              (IF T2 <= 2 * T1 THEN T2 ELSE 2 * T1) * 100000
                        /\ error.parts[p].t2 <= 2 * error.parts[p].t1
      ]_vars

\* a model holds, for the qubit with T1 = 100 and T2 = 250, a thermal error
\* built with T2 = 200, and on the pair with its neighbor (T1 = 50, T2 = 120)
\* one whose second part is built with T2 = 100
C22_Witness ==
    \E n \in DOMAIN noise_models :
        LET errors == noise_models[n].noise_model.quantum_errors IN
        /\ <<"measure", <<0>>>> \in DOMAIN errors
        /\ errors[<<"measure", <<0>>>>][1].parts[1].t1 = 100 * 100000
        /\ errors[<<"measure", <<0>>>>][1].parts[1].t2 = 200 * 100000
        /\ <<"ecr", <<0, 1>>>> \in DOMAIN errors
        /\ \E i \in DOMAIN errors[<<"ecr", <<0, 1>>>>] :
              LET error == errors[<<"ecr", <<0, 1>>>>][i] IN
              /\ error.type = "thermal_relaxation"
              /\ error.parts[1].t2 = 200 * 100000
              /\ error.parts[2].t2 = 100 * 100000


\* the thermal relaxation errors the built model holds under an instruction
\* and qubits, in the order added
thermal_errors(instructions, qubits) ==
    IF <<instructions, qubits>> \in DOMAIN built_model.quantum_errors
    THEN SelectSeq(built_model.quantum_errors[<<instructions, qubits>>],
                   LAMBDA error : error.type = "thermal_relaxation")
    ELSE <<>>

\* the time of a single thermal relaxation error
thermal_times(errors) == [i \in DOMAIN errors |-> errors[i].parts[1].time]

\* C25: a model built with noise holds, for every qubit, one thermal
\* relaxation error under the name of every single-qubit gate whose column
\* is in the table, built with the duration of that gate (the single-qubit
\* gate time; 0 for rz), one under the name of every two-qubit gate whose
\* column is in the table for each neighbor of the gate-time cell, built with
\* the time of that neighbor, one under "measure" built with the readout time
\* and one under "reset" built with the reset time, and no other.
C25_ThermalPerInstruction ==
    [][ BuiltWithNoise =>
        \A qubit \in 0..(Len(built_from.rows) - 1) :
          LET columns == built_from.rows[qubit + 1] IN
          /\ \A i \in DOMAIN single_qubit_gates :
                single_qubit_gates[i] \in built_from.columns =>
                   thermal_times(thermal_errors(code_name(single_qubit_gates[i]), <<qubit>>))
                      = << IF single_qubit_gates[i] = "rz_gate_error" THEN 0
                           ELSE columns["1q_gate_time"].val * 100 >>
          /\ \A i \in DOMAIN two_qubit_gates :
                (two_qubit_gates[i] \in built_from.columns /\ ~isna(columns["2q_gate_time"])) =>
                   \A target_qubit \in DOMAIN columns["2q_gate_time"].val :
                      thermal_times(thermal_errors(code_name(two_qubit_gates[i]),
                                                   <<qubit, target_qubit>>))
                         = << columns["2q_gate_time"].val[target_qubit] >>
          /\ thermal_times(thermal_errors("measure", <<qubit>>))
                = << columns["readout_time"].val * 100 >>
          /\ thermal_times(thermal_errors("reset", <<qubit>>))
                = << columns["reset_time"].val * 100 >>
      ]_vars


\* the depolarizing errors the built model holds under an instruction and
\* qubits, by their parameter, in the order added
depolarizing_params(instructions, qubits) ==
    IF <<instructions, qubits>> \in DOMAIN built_model.quantum_errors
    THEN LET errors == SelectSeq(built_model.quantum_errors[<<instructions, qubits>>],
                                 LAMBDA error : error.type = "depolarizing")
         IN  [i \in DOMAIN errors |-> errors[i].param]
    ELSE <<>>

\* C26: a model built with noise holds, for every qubit and every
\* single-qubit gate whose column is in the table, one depolarizing error of
\* the cell's value under that gate and qubit when the cell is filled and
\* none when it is empty (the build still ends well and the other gates and
\* qubits get theirs); for every two-qubit gate it holds one depolarizing
\* error per neighbor of the cell's mapping, on the pair of the qubit and
\* that neighbor, and none on any other pair.
C26_SkipOnMissing ==
    [][ BuiltWithNoise =>
        \A qubit \in 0..(Len(built_from.rows) - 1) :
          LET columns == built_from.rows[qubit + 1] IN
          /\ \A i \in DOMAIN single_qubit_gates :
                LET gate == single_qubit_gates[i] IN
                gate \in built_from.columns =>
                   depolarizing_params(code_name(gate), <<qubit>>) =
                      IF isna(columns[gate]) THEN <<>> ELSE << columns[gate].val >>
          /\ \A i \in DOMAIN two_qubit_gates :
                LET gate == two_qubit_gates[i] IN
                gate \in built_from.columns =>
                   \A other \in 0..(Len(built_from.rows) - 1) :
                      depolarizing_params(code_name(gate), <<qubit, other>>) =
                         IF ~isna(columns[gate]) /\ other \in DOMAIN columns[gate].val
                         THEN << columns[gate].val[other] >>
                         ELSE <<>>
      ]_vars

\* a model was built from the file whose qubit 1 has no sx error: no
\* depolarizing error under sx for qubit 1, one for qubit 0, one under rz for
\* qubit 1 and one under ecr on the pair 1, 0
C26_Witness ==
    /\ last.op = "create_noise_model"
    /\ last.err = "none"
    /\ \E n \in DOMAIN noise_models :
          LET errors == noise_models[n].noise_model.quantum_errors
              depolarizing(at) == { i \in DOMAIN errors[at] : errors[at][i].type = "depolarizing" }
          IN  /\ noise_models[n].key = last.key
              /\ <<"sx", <<1>>>> \in DOMAIN errors /\ depolarizing(<<"sx", <<1>>>>) = {}
              /\ depolarizing(<<"sx", <<0>>>>) # {}
              /\ depolarizing(<<"rz", <<1>>>>) # {}
              /\ <<"ecr", <<1, 0>>>> \in DOMAIN errors
              /\ depolarizing(<<"ecr", <<1, 0>>>>) # {}



(***************************************************************************)
(* The three managers with a calibration file whose cells name qubits the  *)
(* file has no rows for: calls that fail in their checks and calls that    *)
(* fail partway through the build.                                         *)
(***************************************************************************)
FailureFiles ==
    { [stem |-> "cal", ext |-> ".csv", content |-> CalTable],
      [stem |-> "dangling", ext |-> ".csv", content |-> DanglingTable] }

NextManagers ==
    \/ \E k \in BuildKeys, f \in FailureFiles : import_csv_data(k, f)
    \/ \E k \in BuildKeys : remove_noise_data_instance(k)
    \/ \E k \in BuildKeys, q \in {Num(0), Num(MaxRows + 1)} :
          get_qubit_noise_information(k, q)
    \/ link_noise_data_manager
    \/ \E m \in BuildKeys, d \in BuildKeys : create_noise_model(m, d, TRUE)
    \/ \E k \in BuildKeys : remove_noise_model_instance(k)
    \/ link_noise_creator
    \/ \E m \in BuildKeys, s \in BuildKeys : create_simulator(m, s)
    \/ \E k \in BuildKeys : remove_simulator_instance(k)
    \/ \E s \in BuildKeys, o \in OptimizationLevels : run_simulator(s, o)

SpecManagers == Init /\ [][NextManagers]_vars

\* C23: a call of a manager that ends in a fault, found by its checks or
\* raised partway through the build, leaves the three registries and the two
\* lock tables as they were before the call.
C23_FailureAtomicity ==
    [][ last'.err # "none" =>
           UNCHANGED <<noise_data, noise_models, simulators, key_availability>> ]_vars

\* a build has just failed partway, on a neighbor that is not a row of the
\* table, after the basis gates were read, while instances and locks exist
C23_Witness ==
    /\ last.op = "create_noise_model"
    /\ last.err = "KeyError"
    /\ ~last.handled
    /\ last.source \in KeysOf(noise_data)
    /\ last.key \notin KeysOf(noise_models)
    /\ Len(CONFIG.non_gate_instructions) > Len(ConfigLoaded.non_gate_instructions)
    /\ noise_models # <<>>
    /\ \E category \in DOMAIN key_availability : key_availability[category] # <<>>



\* the key holds no space
space_free(key) == \A i \in DOMAIN key : key[i] # " "

\* C24: the key a new instance is stored under is the key as typed with each
\* space replaced by "_"; replacing once more changes nothing and a key
\* without spaces is kept as it is; no key of a registry, no locked key and
\* no blocker key of a lock table ever holds a space.
C24_KeyNormalization ==
    /\ \A key \in Keys :
          LET stored == validate_instance_name(key) IN
          /\ DOMAIN stored = DOMAIN key
          /\ \A i \in DOMAIN key :
                stored[i] = IF key[i] = " " THEN "_" ELSE key[i]
          /\ validate_instance_name(stored) = stored
          /\ space_free(key) => stored = key
    /\ ( /\ last.op \in {"import_csv_data", "create_noise_model", "create_simulator"}
         /\ last.err = "none" )
       => /\ last.key = validate_instance_name(last.arg)
          /\ last.key \in KeysOf(CASE last.op = "import_csv_data" -> noise_data
                                   [] last.op = "create_noise_model" -> noise_models
                                   [] OTHER -> simulators)
    /\ \A key \in KeysOf(noise_data) \cup KeysOf(noise_models) \cup KeysOf(simulators) :
          space_free(key)
    /\ \A instance_type \in DOMAIN key_availability :
          \A key \in DOMAIN blocked_keys(key_availability, instance_type) :
             /\ space_free(key)
             /\ space_free(blocked_keys(key_availability, instance_type)[key])

\* a model was just created under a key typed with a space: it is stored
\* under the key with "_" and that key is the blocker of a lock
C24_Witness ==
    /\ last.op = "create_noise_model"
    /\ last.err = "none"
    /\ ~space_free(last.arg)
    /\ last.key \in KeysOf(noise_models)
    /\ last.arg \notin KeysOf(noise_models)
    /\ \E key \in DOMAIN blocked_keys(key_availability, "noise_data") :
          blocked_keys(key_availability, "noise_data")[key] = last.key



\* C27: no call of the NoiseCreator changes the data registry, no call of
\* the SimulatorManager changes the model registry or the data registry, and
\* the instance a data key leads to, its table included, is the same after
\* every call that leaves the key in the registry.
C27_UpstreamReadOnly ==
    [][ /\ last'.op \in {"link_noise_data_manager", "create_noise_model",
                         "remove_noise_model_instance"}
           => noise_data' = noise_data
        /\ last'.op \in {"link_noise_creator", "create_simulator",
                         "remove_simulator_instance", "run_simulator"}
           => /\ noise_models' = noise_models
              /\ noise_data' = noise_data
        /\ \A key \in KeysOf(noise_data) \cap KeysOf(noise_data') :
              GetItem(noise_data', key) = GetItem(noise_data, key)
      ]_vars

\* a simulator was just created from a model whose data instance is in the
\* data registry with the table it was imported with
C27_Witness ==
    /\ last.op = "create_simulator"
    /\ last.err = "none"
    /\ last.source \in KeysOf(noise_models)
    /\ LET data_source == GetItem(noise_models, last.source).data_source IN
       /\ data_source \in KeysOf(noise_data)
       /\ \E f \in FailureFiles :
             /\ GetItem(noise_data, data_source).dataframe = processed(f)
             /\ GetItem(noise_data, data_source).dataframe.rows # <<>>



\* C28: in every reachable state the instances can be taken down in order:
\* the removal of an existing simulator succeeds; once no simulator is left
\* the removal of an existing model succeeds; once no model and no simulator
\* is left the removal of an existing data instance succeeds.  No such
\* removal ends in a fault because the lock it releases is absent.
C28_TeardownPossible ==
    [][ /\ ( /\ last'.op = "remove_simulator_instance"
             /\ last'.arg \in KeysOf(simulators) )
           => /\ last'.err = "none"
              /\ last'.arg \notin KeysOf(simulators')
        /\ ( /\ last'.op = "remove_noise_model_instance"
             /\ last'.arg \in KeysOf(noise_models)
             /\ simulators = <<>> )
           => /\ last'.err = "none"
              /\ last'.arg \notin KeysOf(noise_models')
        /\ ( /\ last'.op = "remove_noise_data_instance"
             /\ last'.arg \in KeysOf(noise_data)
             /\ noise_models = <<>>
             /\ simulators = <<>> )
           => /\ last'.err = "none"
              /\ last'.arg \notin KeysOf(noise_data')
      ]_vars

\* the removal of a model that is in the registry has just ended in a
\* KeyError that left the method, with no simulator left; the model is
\* still there
C28_Witness ==
    /\ last.op = "remove_noise_model_instance"
    /\ last.err = "KeyError"
    /\ ~last.handled
    /\ last.arg \in KeysOf(noise_models)
    /\ simulators = <<>>



\* the basis gates the columns of a table stand for, after the instructions
\* that are no gates, computed from the configuration as loaded
basis_gates_of(noise_dataframe) ==
    LET names(gates) ==
            LET present == present_gates(gates, noise_dataframe.columns) IN
            [i \in DOMAIN present |-> code_name(present[i])]
    IN  ConfigLoaded.non_gate_instructions \o names(single_qubit_gates)
                                           \o names(two_qubit_gates)

\* C29: creating a noise model leaves the shared configuration as it was
\* loaded, and the basis gates of the model it stores are the instructions
\* that are no gates followed by the gates of the columns of its source
\* table, whatever models were created before, so that models built from the
\* same data instance get the same basis gates; no gate name is repeated.
C29_ConfigUntouched ==
    [][ ( last'.op = "create_noise_model" /\ last'.err = "none" ) =>
           /\ CONFIG' = CONFIG
           /\ CONFIG' = ConfigLoaded
           /\ built_model.basis_gates = basis_gates_of(built_from)
           /\ \A i, j \in DOMAIN built_model.basis_gates :
                 built_model.basis_gates[i] = built_model.basis_gates[j] => i = j
      ]_vars

\* a model was just built from a table without an sx column and its basis
\* gates name sx, left in the configuration by an earlier build, while an
\* earlier model is in the registry
C29_Witness ==
    /\ last.op = "create_noise_model"
    /\ last.err = "none"
    /\ last.source \in KeysOf(noise_data)
    /\ "sx_gate_error" \notin GetItem(noise_data, last.source).dataframe.columns
    /\ last.key \in KeysOf(noise_models)
    /\ \E i \in DOMAIN GetItem(noise_models, last.key).noise_model.basis_gates :
          GetItem(noise_models, last.key).noise_model.basis_gates[i] = "sx"
    /\ Len(noise_models) > 1
    /\ CONFIG # ConfigLoaded


\* C30: in every state the lock tables come to, what check_blocked_key
\* answers for a key and one instance type is the same whatever entry the
\* lock table of the other type holds or lacks for that key; a create_noise_model whose key has an entry in the data lock
\* table and none in the model lock table is never refused as blocked, and
\* registers the model when its other checks pass; an import whose key has an
\* entry in the model lock table and none in the data lock table is never
\* refused as blocked; no removal of a model is refused as blocked.
C30_LockTablesIndependent ==
    [][ /\ key_availability' # key_availability =>
           \A key \in Keys, blocker_key \in Keys :
              LET ka == key_availability' IN
              /\ check_blocked_key(block_key(ka, key, "noise_data", blocker_key),
                                   key, "noise_models")
                    = check_blocked_key(ka, key, "noise_models")
              /\ check_blocked_key(unblock_key(ka, key, "noise_data"), key, "noise_models")
                    = check_blocked_key(ka, key, "noise_models")
              /\ check_blocked_key(block_key(ka, key, "noise_models", blocker_key),
                                   key, "noise_data")
                    = check_blocked_key(ka, key, "noise_data")
              /\ check_blocked_key(unblock_key(ka, key, "noise_models"), key, "noise_data")
                    = check_blocked_key(ka, key, "noise_data")
        /\ ( /\ last'.op = "create_noise_model"
             /\ last'.arg \in DOMAIN DataLock
             /\ last'.arg \notin DOMAIN ModelLock )
           => /\ last'.err # "BlockedKeyError"
              /\ ( /\ nc_linked
                   /\ last'.source \in KeysOf(noise_data)
                   /\ last'.arg \notin KeysOf(noise_models) )
                 => /\ last'.err = "none"
                    /\ last'.key \in KeysOf(noise_models')
        /\ ( /\ last'.op = "import_csv_data"
             /\ validate_instance_name(last'.arg) \in DOMAIN ModelLock
             /\ validate_instance_name(last'.arg) \notin DOMAIN DataLock )
           => last'.err # "BlockedKeyError"
        /\ last'.op = "remove_noise_model_instance" => last'.err # "BlockedKeyError"
      ]_vars

\* a model was just created under a key that is locked as a data key by
\* another model and is no key of the model lock table
C30_Witness ==
    /\ last.op = "create_noise_model"
    /\ last.err = "none"
    /\ last.key \in KeysOf(noise_models)
    /\ last.key \in KeysOf(noise_data)
    /\ last.key \in DOMAIN DataLock
    /\ last.key \notin DOMAIN ModelLock
    /\ \E n \in DOMAIN noise_models :
          /\ noise_models[n].key # last.key
          /\ noise_models[n].data_source = last.key


====
